---- MODULE Spec2Model ----
(***************************************************************************)
(* The self-learning search engine of i3-help                              *)
(* (scripts/search_learning_system.py, class SearchLearningSystem).        *)
(*                                                                         *)
(* Strings are sequences of one-character strings, so that lower(),        *)
(* strip(), the regular expressions and difflib's similarity ratio are     *)
(* computed on the characters as the code computes them.  Confidence       *)
(* scores are exact rationals <<numerator, denominator>> in lowest terms   *)
(* (the code uses IEEE doubles; rounding is not modelled).  Wall-clock     *)
(* time is an integer number of seconds.                                   *)
(***************************************************************************)
EXTENDS Integers, Sequences, FiniteSets, TLC

(***************************************************************************)
(* Characters                                                              *)
(***************************************************************************)
UpperChars ==
    <<"A", "B", "C", "D", "E", "F", "G", "H", "I", "J", "K", "L", "M",
      "N", "O", "P", "Q", "R", "S", "T", "U", "V", "W", "X", "Y", "Z">>

LowerChars ==
    <<"a", "b", "c", "d", "e", "f", "g", "h", "i", "j", "k", "l", "m",
      "n", "o", "p", "q", "r", "s", "t", "u", "v", "w", "x", "y", "z">>

\* The characters in code-point order: space, hyphen, A-Z, underscore, a-z.
Alphabet == <<" ", "-">> \o UpperChars \o <<"_">> \o LowerChars

Code(c) == CHOOSE i \in 1..Len(Alphabet) : Alphabet[i] = c

IsUpper(c) == \E i \in 1..26 : UpperChars[i] = c

IsSpace(c) == c = " "

\* \w of the re module
IsWordChar(c) == c = "_" \/ IsUpper(c) \/ \E i \in 1..26 : LowerChars[i] = c

LowerChar(c) ==
    IF IsUpper(c) THEN LowerChars[CHOOSE i \in 1..26 : UpperChars[i] = c] ELSE c

\* str.lower()
Lower(s) == [i \in 1..Len(s) |-> LowerChar(s[i])]

\* str.strip()
Strip(s) ==
    LET keep == {i \in 1..Len(s) : ~IsSpace(s[i])}
    IN  IF keep = {} THEN <<>>
        ELSE LET lo == CHOOSE i \in keep : \A j \in keep : i <= j
                 hi == CHOOSE i \in keep : \A j \in keep : i >= j
             IN  SubSeq(s, lo, hi)

\* Python's < on str
RECURSIVE StrLess(_, _)
StrLess(s, t) ==
    IF t = <<>> THEN FALSE
    ELSE IF s = <<>> THEN TRUE
    ELSE IF s[1] = t[1] THEN StrLess(Tail(s), Tail(t))
    ELSE Code(s[1]) < Code(t[1])

\* re.findall(r'\b\w+\b', s): the maximal runs of word characters, in order
RECURSIVE WordsFrom(_, _, _)
WordsFrom(s, i, cur) ==
    IF i > Len(s) THEN (IF cur = <<>> THEN <<>> ELSE <<cur>>)
    ELSE IF IsWordChar(s[i]) THEN WordsFrom(s, i + 1, Append(cur, s[i]))
    ELSE (IF cur = <<>> THEN <<>> ELSE <<cur>>) \o WordsFrom(s, i + 1, <<>>)

FindallWords(s) == WordsFrom(s, 1, <<>>)

SeqToSet(q) == {q[i] : i \in 1..Len(q)}

(***************************************************************************)
(* Rationals                                                               *)
(***************************************************************************)
RECURSIVE Gcd(_, _)
Gcd(a, b) == IF b = 0 THEN a ELSE Gcd(b, a % b)

Rat(n, d) == LET g == Gcd(n, d) IN <<n \div g, d \div g>>

RatLess(x, y) == x[1] * y[2] < y[1] * x[2]

RatLeq(x, y) == x[1] * y[2] <= y[1] * x[2]

\* a confidence is a Python float, written here as the rational it stands
\* for.  One float of the model is not the double nearest to a short
\* decimal: 0.7 + 0.1, which is 0.7999999999999999 and so less than 0.8; it
\* is written 4/5 - 1/10^6, and the sums that follow it keep that distance.
JustBelowFourFifths == <<799999, 1000000>>

\* c + 0.1 in float arithmetic
PlusTenth(c) ==
    IF c = <<7, 10>> THEN JustBelowFourFifths
    ELSE Rat(10 * c[1] + c[2], 10 * c[2])

(***************************************************************************)
(* difflib                                                                 *)
(***************************************************************************)
\* length of the common run of a and b that starts at a[i], b[j]
RECURSIVE RunLen(_, _, _, _, _, _)
RunLen(a, b, i, j, ahi, bhi) ==
    IF i > ahi \/ j > bhi THEN 0
    ELSE IF a[i] # b[j] THEN 0
    ELSE 1 + RunLen(a, b, i + 1, j + 1, ahi, bhi)

\* SequenceMatcher.find_longest_match without junk: the longest block, of
\* those the one starting earliest in a, of those the one earliest in b.
FindLongestMatch(a, b, alo, ahi, blo, bhi) ==
    LET cells == {c \in (alo..ahi) \X (blo..bhi) : a[c[1]] = b[c[2]]}
    IN  IF cells = {} THEN <<alo, blo, 0>>
        ELSE LET len == [c \in cells |-> RunLen(a, b, c[1], c[2], ahi, bhi)]
                 k == CHOOSE n \in {len[c] : c \in cells} :
                          \A c \in cells : len[c] <= n
                 best == {c \in cells : len[c] = k}
                 i == CHOOSE x \in {c[1] : c \in best} :
                          \A c \in best : x <= c[1]
                 j == CHOOSE y \in {c[2] : c \in {d \in best : d[1] = i}} :
                          \A c \in {d \in best : d[1] = i} : y <= c[2]
             IN  <<i, j, k>>

\* total size of SequenceMatcher.get_matching_blocks
RECURSIVE MatchingSize(_, _, _, _, _, _)
MatchingSize(a, b, alo, ahi, blo, bhi) ==
    IF alo > ahi \/ blo > bhi THEN 0
    ELSE LET m == FindLongestMatch(a, b, alo, ahi, blo, bhi)
         IN  IF m[3] = 0 THEN 0
             ELSE m[3]
                  + MatchingSize(a, b, alo, m[1] - 1, blo, m[2] - 1)
                  + MatchingSize(a, b, m[1] + m[3], ahi, m[2] + m[3], bhi)

\* SequenceMatcher(None, a, b).ratio()
Ratio(a, b) ==
    IF Len(a) + Len(b) = 0 THEN <<1, 1>>
    ELSE Rat(2 * MatchingSize(a, b, 1, Len(a), 1, Len(b)), Len(a) + Len(b))

\* heapq.nlargest(n, ...) over (score, x) pairs: best first, ties on the
\* score decided by the string comparison of the terms
RECURSIVE Largest(_, _, _)
Largest(S, score, n) ==
    IF n = 0 \/ S = {} THEN <<>>
    ELSE LET best == CHOOSE x \in S : \A y \in S \ {x} :
                         \/ RatLess(score[y], score[x])
                         \/ score[y] = score[x] /\ StrLess(y, x)
         IN  <<best>> \o Largest(S \ {best}, score, n - 1)

\* difflib.get_close_matches(word, possibilities, n, cutoff); the two quick
\* ratios it tests first are upper bounds of ratio() and filter nothing more
GetCloseMatches(word, possibilities, n, cutoff) ==
    LET score == [x \in possibilities |-> Ratio(x, word)]
        close == {x \in possibilities : RatLeq(cutoff, score[x])}
    IN  Largest(close, score, n)

(***************************************************************************)
(* LearningConfig defaults (the dataclass), and the records                *)
(***************************************************************************)
DefaultMinConfidenceThreshold == <<3, 10>>
DefaultAutoApplyThreshold == <<4, 5>>
DefaultCleanupAgeDays == 30
DefaultMinEvidenceCount == 2
DefaultMaxSuggestionsPerQuery == 5
DefaultTypoSimilarityThreshold == <<3, 5>>
DefaultSynonymSimilarityThreshold == <<2, 5>>

\* LearningConfig with the two size caps and the auto-apply threshold given
LearningConfig(maxFailed, maxInsights, autoApply) ==
    [max_failed_searches |-> maxFailed,
     max_insights |-> maxInsights,
     min_confidence_threshold |-> DefaultMinConfidenceThreshold,
     auto_apply_threshold |-> autoApply,
     cleanup_age_days |-> DefaultCleanupAgeDays,
     min_evidence_count |-> DefaultMinEvidenceCount,
     max_suggestions_per_query |-> DefaultMaxSuggestionsPerQuery,
     typo_similarity_threshold |-> DefaultTypoSimilarityThreshold,
     synonym_similarity_threshold |-> DefaultSynonymSimilarityThreshold]

\* Optional[str]: None is the empty sequence, a value v is <<v>>
None == <<>>
Some(v) == <<v>>

\* FailedSearch(...) as record_failed_search constructs it; seq is the
\* ordinal of the call that created the record (not a field of the code)
FailedSearch(query, t, result_count, suggested_matches, session_id, n) ==
    [query |-> query,
     timestamp |-> t,
     result_count |-> result_count,
     suggested_matches |-> suggested_matches,
     user_selected |-> None,
     user_feedback |-> None,
     session_id |-> session_id,
     seq |-> n]

\* LearningInsight(...) as _add_insight constructs it
LearningInsight(pattern_type, original_term, suggested_mapping, confidence, t) ==
    [pattern_type |-> pattern_type,
     original_term |-> original_term,
     suggested_mapping |-> suggested_mapping,
     confidence_score |-> confidence,
     evidence_count |-> 1,
     first_seen |-> t,
     last_seen |-> t,
     user_confirmations |-> 0,
     user_rejections |-> 0]

\* one call of _add_insight: its arguments
Observation(pattern_type, original_term, suggested_mapping, confidence) ==
    [pattern_type |-> pattern_type,
     original_term |-> original_term,
     suggested_mapping |-> suggested_mapping,
     confidence_score |-> confidence]

\* SameIdentity without the comparison of pattern_type
SameTerms(x, y) ==
    /\ x.original_term = y.original_term
    /\ x.suggested_mapping = y.suggested_mapping

SameIdentity(x, y) ==
    /\ x.pattern_type = y.pattern_type
    /\ x.original_term = y.original_term
    /\ x.suggested_mapping = y.suggested_mapping

(***************************************************************************)
(* _add_insight                                                            *)
(***************************************************************************)
\* BumpConfidence without the increment
KeepConfidence(c) == c

\* BumpConfidence without the min
BumpUncapped(c) == PlusTenth(c)

\* min(1.0, c + 0.1)
BumpConfidence(c) ==
    LET s == PlusTenth(c)
    IN  IF RatLeq(<<1, 1>>, s) THEN <<1, 1>> ELSE s

\* the sort key (confidence_score, last_seen)
InsightKeyLess(x, y) ==
    \/ RatLess(x.confidence_score, y.confidence_score)
    \/ /\ x.confidence_score = y.confidence_score
       /\ x.last_seen < y.last_seen

\* list.sort(key=...) is stable: x goes after the elements not greater
InsertByKey(sorted, x) ==
    LET n == Cardinality({i \in 1..Len(sorted) : ~InsightKeyLess(x, sorted[i])})
    IN  SubSeq(sorted, 1, n) \o <<x>> \o SubSeq(sorted, n + 1, Len(sorted))

RECURSIVE SortInsights(_)
SortInsights(ins) ==
    IF ins = <<>> THEN <<>>
    ELSE InsertByKey(SortInsights(SubSeq(ins, 1, Len(ins) - 1)), ins[Len(ins)])

\* the slice s[-n:] for n >= 0; s[-0:] is all of s
LastSlice(s, n) ==
    IF n = 0 \/ n >= Len(s) THEN s ELSE SubSeq(s, Len(s) - n + 1, Len(s))

\* TrimInsights without the sort: the insights added last are kept
TrimUnsorted(ins, cap) ==
    IF Len(ins) > cap THEN LastSlice(ins, cap) ELSE ins

\* the size limit at the end of _add_insight
TrimInsights(ins, cap) ==
    IF Len(ins) > cap THEN LastSlice(SortInsights(ins), cap) ELSE ins

AddInsight(ins, o, t, cap) ==
    LET hits == {i \in 1..Len(ins) : SameIdentity(ins[i], o)}
    IN  IF hits # {}
        THEN LET i == CHOOSE h \in hits : \A g \in hits : h <= g
                 e == ins[i]
             IN  TrimInsights(
                   [ins EXCEPT ![i] =
                      [e EXCEPT !.evidence_count = e.evidence_count + 1,
                                !.last_seen = t,
                                !.confidence_score = BumpConfidence(e.confidence_score)]],
                   cap)
        ELSE TrimInsights(
               Append(ins, LearningInsight(o.pattern_type, o.original_term,
                                           o.suggested_mapping, o.confidence_score, t)),
               cap)

\* the calls of _add_insight an operation makes, in order
RECURSIVE AddInsights(_, _, _, _)
AddInsights(ins, obs, t, cap) ==
    IF obs = <<>> THEN ins
    ELSE AddInsights(AddInsight(ins, Head(obs), t, cap), Tail(obs), t, cap)

(***************************************************************************)
(* The insight miner                                                       *)
(***************************************************************************)
\* the table of _analyze_intent_patterns: \b(verbs)\s+(nouns), where no
\* nouns stands for (\w+)
IntentPatterns ==
    <<
      [verbs |-> <<<<"o", "p", "e", "n">>,
                   <<"l", "a", "u", "n", "c", "h">>,
                   <<"s", "t", "a", "r", "t">>>>,
       nouns |-> <<>>,
       label |-> <<"l", "a", "u", "n", "c", "h", "_", "a", "p", "p", "l", "i", "c", "a", "t", "i", "o", "n">>],
      [verbs |-> <<<<"t", "a", "k", "e">>,
                   <<"m", "a", "k", "e">>,
                   <<"c", "a", "p", "t", "u", "r", "e">>>>,
       nouns |-> <<<<"s", "c", "r", "e", "e", "n", "s", "h", "o", "t">>,
                   <<"p", "i", "c", "t", "u", "r", "e">>,
                   <<"s", "n", "a", "p">>>>,
       label |-> <<"s", "c", "r", "e", "e", "n", "s", "h", "o", "t">>],
      [verbs |-> <<<<"c", "h", "a", "n", "g", "e">>,
                   <<"a", "d", "j", "u", "s", "t">>,
                   <<"s", "e", "t">>>>,
       nouns |-> <<<<"v", "o", "l", "u", "m", "e">>,
                   <<"s", "o", "u", "n", "d">>>>,
       label |-> <<"a", "u", "d", "i", "o", "_", "c", "o", "n", "t", "r", "o", "l">>],
      [verbs |-> <<<<"s", "w", "i", "t", "c", "h">>,
                   <<"g", "o">>,
                   <<"m", "o", "v", "e">>>>,
       nouns |-> <<<<"w", "o", "r", "k", "s", "p", "a", "c", "e">>,
                   <<"d", "e", "s", "k", "t", "o", "p">>>>,
       label |-> <<"w", "o", "r", "k", "s", "p", "a", "c", "e", "_", "n", "a", "v", "i", "g", "a", "t", "i", "o", "n">>],
      [verbs |-> <<<<"c", "l", "o", "s", "e">>,
                   <<"k", "i", "l", "l">>,
                   <<"e", "x", "i", "t">>>>,
       nouns |-> <<<<"w", "i", "n", "d", "o", "w">>,
                   <<"a", "p", "p">>>>,
       label |-> <<"w", "i", "n", "d", "o", "w", "_", "m", "a", "n", "a", "g", "e", "m", "e", "n", "t">>]
    >>

\* the confidence _analyze_intent_patterns passes
IntentConfidence == <<7, 10>>

\* the confidence default of _suggest_synonym_mapping
DefaultSynonymConfidence == <<1, 2>>

\* len(word) > 2
MinWordLen == 2

\* n of the get_close_matches call in _check_for_typos
TypoMatches == 3

\* w occurs in s at position i, letter case ignored
HasPrefixAt(s, i, w) ==
    /\ i + Len(w) - 1 <= Len(s)
    /\ \A k \in 1..Len(w) : LowerChar(s[i + k - 1]) = LowerChar(w[k])

\* re.search(pattern, s, re.IGNORECASE) for a pattern of the table
IntentSearch(p, s) ==
    \E i \in 1..Len(s) :
        /\ i = 1 \/ ~IsWordChar(s[i - 1])
        /\ \E v \in 1..Len(p.verbs) :
             /\ HasPrefixAt(s, i, p.verbs[v])
             /\ \E j \in (i + Len(p.verbs[v]) + 1)..Len(s) :
                  /\ \A k \in (i + Len(p.verbs[v]))..(j - 1) : IsSpace(s[k])
                  /\ IF p.nouns = <<>> THEN IsWordChar(s[j])
                     ELSE \E n \in 1..Len(p.nouns) : HasPrefixAt(s, j, p.nouns[n])

\* the terms _check_for_typos compares the query with
ExistingTerms(dicts) ==
    UNION {SeqToSet(dicts.synonyms[k]) : k \in DOMAIN dicts.synonyms}
      \cup DOMAIN dicts.synonyms
      \cup {dicts.typos[k] : k \in DOMAIN dicts.typos}

\* _check_for_typos without the n of get_close_matches
TypoObservationsUncapped(query, dicts, cfg) ==
    LET close == GetCloseMatches(query, ExistingTerms(dicts),
                                 Cardinality(ExistingTerms(dicts)),
                                 cfg.typo_similarity_threshold)
    IN  [i \in 1..Len(close) |->
           Observation("typo", query, close[i], Ratio(query, close[i]))]

\* _check_for_typos: its _add_insight calls
TypoObservations(query, dicts, cfg) ==
    LET close == GetCloseMatches(query, ExistingTerms(dicts), TypoMatches,
                                 cfg.typo_similarity_threshold)
    IN  [i \in 1..Len(close) |->
           Observation("typo", query, close[i], Ratio(query, close[i]))]

\* every sequence that lists the set S once: the orders a set can iterate in
RECURSIVE Orderings(_)
Orderings(S) ==
    IF S = {} THEN {<<>>}
    ELSE UNION {{<<x>> \o r : r \in Orderings(S \ {x})} : x \in S}

\* set(re.findall(r'\b\w+\b', s.lower()))
WordSet(s) == SeqToSet(FindallWords(Lower(s)))

RECURSIVE Flatten(_)
Flatten(ss) == IF ss = <<>> THEN <<>> ELSE Head(ss) \o Flatten(Tail(ss))

\* the inner loops of _analyze_potential_synonyms for one suggested match,
\* the query words iterated in order qorder, the candidates in order porder
SynonymPairs(qorder, porder, cfg) ==
    Flatten([qi \in 1..Len(qorder) |->
      Flatten([pi \in 1..Len(porder) |->
        IF /\ Len(qorder[qi]) > MinWordLen
           /\ Len(porder[pi]) > MinWordLen
           /\ RatLess(cfg.synonym_similarity_threshold,
                      Ratio(qorder[qi], porder[pi]))
        THEN <<Observation("synonym", qorder[qi], porder[pi],
                           Ratio(qorder[qi], porder[pi]))>>
        ELSE <<>>])])

\* _analyze_potential_synonyms: the sequences of _add_insight calls it can
\* make, one for each iteration order of its sets
RECURSIVE SynonymObservations(_, _, _, _)
SynonymObservations(query, qorder, matches, cfg) ==
    IF matches = <<>> THEN {<<>>}
    ELSE LET potential == WordSet(Head(matches)) \ WordSet(query)
             rest == SynonymObservations(query, qorder, Tail(matches), cfg)
         IN  {SynonymPairs(qorder, porder, cfg) \o r :
                porder \in Orderings(potential), r \in rest}

\* _analyze_intent_patterns: its _add_insight calls
IntentObservations(query) ==
    Flatten([p \in 1..Len(IntentPatterns) |->
      IF IntentSearch(IntentPatterns[p], query)
      THEN <<Observation("intent", query, IntentPatterns[p].label, IntentConfidence)>>
      ELSE <<>>])

\* _analyze_recent_failure: the sequences of _add_insight calls it can make
FailureObservations(fs, dicts, cfg) ==
    LET typo == TypoObservations(fs.query, dicts, cfg)
        intent == IntentObservations(fs.query)
        syn == IF fs.suggested_matches # <<>>
               THEN UNION {SynonymObservations(fs.query, qorder,
                                               fs.suggested_matches, cfg) :
                             qorder \in Orderings(WordSet(fs.query))}
               ELSE {<<>>}
    IN  {typo \o s \o intent : s \in syn}

\* _analyze_user_selection following the rule of
\* _analyze_potential_synonyms: candidates absent from the query, similarity
\* above the default synonym threshold
SelectionObservationsBySimilarity(search) ==
    IF search.user_selected = None \/ search.user_selected = Some(<<>>)
    THEN <<>>
    ELSE LET selected_words == FindallWords(Lower(search.user_selected[1]))
             query_words == FindallWords(search.query)
         IN  Flatten([qi \in 1..Len(query_words) |->
               Flatten([si \in 1..Len(selected_words) |->
                 IF /\ selected_words[si] \notin SeqToSet(query_words)
                    /\ Len(query_words[qi]) > MinWordLen
                    /\ Len(selected_words[si]) > MinWordLen
                    /\ RatLess(DefaultSynonymSimilarityThreshold,
                               Ratio(query_words[qi], selected_words[si]))
                 THEN <<Observation("synonym", query_words[qi], selected_words[si],
                                    DefaultSynonymConfidence)>>
                 ELSE <<>>])])

\* _analyze_user_selection: its _add_insight calls
SelectionObservations(search) ==
    IF search.user_selected = None \/ search.user_selected = Some(<<>>)
    THEN <<>>
    ELSE LET selected_words == FindallWords(Lower(search.user_selected[1]))
             query_words == FindallWords(search.query)
         IN  Flatten([qi \in 1..Len(query_words) |->
               Flatten([si \in 1..Len(selected_words) |->
                 IF /\ query_words[qi] # selected_words[si]
                    /\ Len(query_words[qi]) > MinWordLen
                    /\ Len(selected_words[si]) > MinWordLen
                 THEN <<Observation("synonym", query_words[qi], selected_words[si],
                                    DefaultSynonymConfidence)>>
                 ELSE <<>>])])

(***************************************************************************)
(* get_improvement_suggestions and apply_high_confidence_suggestions       *)
(***************************************************************************)
\* the keys of the suggestions dict, in insertion order
Categories ==
    <<"typo", "typos", "synonym", "synonyms", "intent", "intents", "high_confidence">>

\* pattern_type + 's'
Plural(pattern_type) ==
    CASE pattern_type = "typo" -> "typos"
      [] pattern_type = "synonym" -> "synonyms"
      [] pattern_type = "intent" -> "intents"
      [] OTHER -> "none"

\* the suggestion dict built for an insight
Suggestion(insight) ==
    [original |-> insight.original_term,
     suggestion |-> insight.suggested_mapping,
     confidence |-> insight.confidence_score,
     evidence_count |-> insight.evidence_count,
     confirmations |-> insight.user_confirmations,
     rejections |-> insight.user_rejections]

\* the test that admits an insight to the suggestions
IsSuggested(insight, cfg) ==
    /\ insight.evidence_count >= cfg.min_evidence_count
    /\ RatLeq(cfg.min_confidence_threshold, insight.confidence_score)

\* the further test that admits it to 'high_confidence'
IsHighConfidence(insight, cfg) ==
    /\ IsSuggested(insight, cfg)
    /\ RatLeq(cfg.auto_apply_threshold, insight.confidence_score)

\* the sort key (confidence, evidence_count)
SuggestionKeyLess(x, y) ==
    \/ RatLess(x.confidence, y.confidence)
    \/ /\ x.confidence = y.confidence
       /\ x.evidence_count < y.evidence_count

\* list.sort(key=..., reverse=True) is stable: x goes after the elements
\* not smaller
InsertSuggestion(sorted, x) ==
    LET n == Cardinality({i \in 1..Len(sorted) : ~SuggestionKeyLess(sorted[i], x)})
    IN  SubSeq(sorted, 1, n) \o <<x>> \o SubSeq(sorted, n + 1, Len(sorted))

RECURSIVE SortSuggestions(_)
SortSuggestions(ss) ==
    IF ss = <<>> THEN <<>>
    ELSE InsertSuggestion(SortSuggestions(SubSeq(ss, 1, Len(ss) - 1)), ss[Len(ss)])

\* the list of one category
CategoryItems(ins, cfg, category) ==
    LET member(i) ==
          IF category = "high_confidence" THEN IsHighConfidence(i, cfg)
          ELSE /\ IsSuggested(i, cfg)
               /\ category \in {i.pattern_type, Plural(i.pattern_type)}
        chosen == SelectSeq(ins, member)
    IN  SortSuggestions([k \in 1..Len(chosen) |-> Suggestion(chosen[k])])

GetImprovementSuggestions(ins, cfg) ==
    [c \in SeqToSet(Categories) |-> CategoryItems(ins, cfg, c)]

\* CategoryOf with the plural keys searched first
CategoryOfPluralFirst(s, suggestions) ==
    LET plurals == <<"typos", "synonyms", "intents">>
        found == {c \in 1..Len(plurals) :
                    \E k \in 1..Len(suggestions[plurals[c]]) :
                        suggestions[plurals[c]][k] = s}
    IN  IF found = {} THEN ""
        ELSE plurals[CHOOSE c \in found : \A d \in found : c <= d]

\* the inner loop of apply_high_confidence_suggestions: the first category
\* other than 'high_confidence' that holds an equal suggestion, "" if none
CategoryOf(s, suggestions) ==
    LET found == {c \in 1..Len(Categories) :
                    /\ Categories[c] # "high_confidence"
                    /\ \E k \in 1..Len(suggestions[Categories[c]]) :
                         suggestions[Categories[c]][k] = s}
    IN  IF found = {} THEN ""
        ELSE Categories[CHOOSE c \in found : \A d \in found : c <= d]

\* dict[key] = value
DictSet(f, key, value) ==
    [x \in (DOMAIN f) \cup {key} |-> IF x = key THEN value ELSE f[x]]

\* the branch 'synonyms' (and likewise 'intents') of the loop body, on one
\* mapping-to-list dict: the dict after it, and whether it counted a change
ApplyToLists(lists, original, mapping) ==
    IF mapping \in DOMAIN lists
    THEN IF original \notin SeqToSet(lists[mapping])
         THEN [dict |-> DictSet(lists, mapping, Append(lists[mapping], original)),
               applied |-> 1]
         ELSE [dict |-> lists, applied |-> 0]
    ELSE [dict |-> DictSet(lists, original, <<mapping>>), applied |-> 1]

\* the body of the try statement for one suggestion of category pattern_type
ApplySuggestion(dicts, pattern_type, s) ==
    IF pattern_type = "typos"
    THEN IF s.original \notin DOMAIN dicts.typos
         THEN [dicts |-> [dicts EXCEPT !.typos = DictSet(@, s.original, s.suggestion)],
               applied |-> 1]
         ELSE [dicts |-> dicts, applied |-> 0]
    ELSE IF pattern_type = "synonyms"
    THEN LET r == ApplyToLists(dicts.synonyms, s.original, s.suggestion)
         IN  [dicts |-> [dicts EXCEPT !.synonyms = r.dict], applied |-> r.applied]
    ELSE IF pattern_type = "intents"
    THEN LET r == ApplyToLists(dicts.intents, s.original, s.suggestion)
         IN  [dicts |-> [dicts EXCEPT !.intents = r.dict], applied |-> r.applied]
    ELSE [dicts |-> dicts, applied |-> 0]

\* the loop over suggestions['high_confidence'], from its k-th item on
RECURSIVE ApplyLoop(_, _, _, _)
ApplyLoop(dicts, suggestions, k, count) ==
    IF k > Len(suggestions["high_confidence"])
    THEN [dicts |-> dicts, applied_count |-> count]
    ELSE LET s == suggestions["high_confidence"][k]
             r == ApplySuggestion(dicts, CategoryOf(s, suggestions), s)
         IN  ApplyLoop(r.dicts, suggestions, k + 1, count + r.applied)

\* ApplyHighConfidence counting every suggestion of high confidence, applied
\* or not
ApplyCountingAll(dicts, ins, cfg) ==
    LET suggestions == GetImprovementSuggestions(ins, cfg)
    IN  [dicts |-> ApplyLoop(dicts, suggestions, 1, 0).dicts,
         applied_count |-> Len(suggestions["high_confidence"])]

\* ApplyHighConfidence with typos[original] = mapping for every typo insight
\* of high confidence, whether or not original has a correction
RECURSIVE ApplyOverwritingTypos(_, _, _)
ApplyOverwritingTypos(dicts, ins, cfg) ==
    IF ins = <<>> THEN [dicts |-> dicts, applied_count |-> 0]
    ELSE LET i == Head(ins)
             hit == i.pattern_type = "typo" /\ IsHighConfidence(i, cfg)
             d == IF hit
                  THEN [dicts EXCEPT !.typos =
                          DictSet(@, i.original_term, i.suggested_mapping)]
                  ELSE dicts
             rest == ApplyOverwritingTypos(d, Tail(ins), cfg)
         IN  [dicts |-> rest.dicts,
              applied_count |-> (IF hit THEN 1 ELSE 0) + rest.applied_count]

\* ApplyHighConfidence looping over self.insights itself, every insight
\* applied to the dictionary of its pattern_type
RECURSIVE ApplyEveryInsight(_, _, _)
ApplyEveryInsight(dicts, ins, cfg) ==
    IF ins = <<>> THEN [dicts |-> dicts, applied_count |-> 0]
    ELSE LET r == ApplySuggestion(dicts, Plural(Head(ins).pattern_type),
                                  Suggestion(Head(ins)))
             rest == ApplyEveryInsight(r.dicts, Tail(ins), cfg)
         IN  [dicts |-> rest.dicts,
              applied_count |-> r.applied + rest.applied_count]

\* apply_high_confidence_suggestions up to its save: the dictionaries after
\* it and applied_count
ApplyHighConfidence(dicts, ins, cfg) ==
    ApplyLoop(dicts, GetImprovementSuggestions(ins, cfg), 1, 0)

(***************************************************************************)
(* The engine                                                              *)
(***************************************************************************)
VARIABLES
    config,             \* self.config
    failed_searches,    \* self.failed_searches
    insights,           \* self.insights
    dictionaries,       \* self.dictionaries
    learning_file,      \* learning_data.json
    dictionaries_file,  \* search_dictionaries.json
    storage,            \* "ok", "denied" (open fails) or "full" (the write fails)
    now,                \* time.time()
    nrec,               \* the number of FailedSearch records created so far
    last_save,          \* how the latest save_learning_data ended
    peer,               \* a second engine over the same files, while it waits
    last                \* the call observed last: its name, query and result

vars == <<config, failed_searches, insights, dictionaries, learning_file,
          dictionaries_file, storage, now, nrec, last_save, peer, last>>

\* the window of record_user_selection: failed_searches[-10:]
SelectionWindow == 10

\* the window of record_user_feedback: failed_searches[-5:]
FeedbackWindow == 5

\* "within 5 minutes": time.time() - timestamp < 300
CorrelationSeconds == 300

SecondsPerDay == 24 * 3600

EmptyDictionaries == [synonyms |-> <<>>, intents |-> <<>>, typos |-> <<>>]

\* no second engine has been constructed
NoPeer ==
    [started |-> FALSE, id |-> 2, config |-> <<>>, failed_searches |-> <<>>,
     insights |-> <<>>, dictionaries |-> EmptyDictionaries,
     last_save |-> [status |-> "none", recovered |-> FALSE]]

NoFile ==
    [state |-> "absent", failed_searches |-> <<>>, insights |-> <<>>,
     config |-> <<>>, last_updated |-> 0]

\* what open(path, 'w') followed by json.dump leaves in the file
WriteFile(file, content, st) ==
    IF st = "ok" THEN content
    ELSE IF st = "denied" THEN file
    ELSE [content EXCEPT !.state = "truncated", !.failed_searches = <<>>,
                         !.insights = <<>>, !.config = <<>>]

\* the document save_learning_data dumps
LearningData(fs, ins, cfg, t) ==
    [state |-> "written", failed_searches |-> fs, insights |-> ins,
     config |-> cfg, last_updated |-> t]

\* save_learning_data without its except clause
SaveOutcomeUncaught(st) == IF st = "ok" THEN "ok" ELSE "raised"

\* how save_learning_data ends: "ok", or "failed" with the exception caught
\* ("raised" would be an exception that reaches the caller)
SaveOutcome(st) == IF st = "ok" THEN "ok" ELSE "failed"

\* save_learning_data: the file after it and the outcome; recovered tells
\* that it succeeded after the save before it had failed
SaveLearningData(file, fs, ins, cfg, t, st, before) ==
    [file |-> WriteFile(file, LearningData(fs, ins, cfg, t), st),
     outcome |-> [status |-> SaveOutcome(st),
                  recovered |-> SaveOutcome(st) = "ok" /\ before.status = "failed"]]

\* save_dictionaries: the file after it
SaveDictionaries(file, dicts, st) ==
    IF st = "ok" THEN [state |-> "written", dictionaries |-> dicts]
    ELSE IF st = "denied" THEN file
    ELSE [state |-> "truncated", dictionaries |-> EmptyDictionaries]

\* TrimFailedSearches keeping the head of the list: fs[:cap]
TrimKeepingOldest(fs, cap) ==
    IF Len(fs) > cap THEN SubSeq(fs, 1, cap) ELSE fs

\* the size limit of record_failed_search
TrimFailedSearches(fs, cap) ==
    IF Len(fs) > cap THEN LastSlice(fs, cap) ELSE fs

\* record_failed_search without the return on a blank query
RecordBlankToo(query, result_count, suggested_matches, session_id) ==
    LET fs == FailedSearch(Strip(Lower(query)), now, result_count,
                           suggested_matches, session_id, nrec + 1)
    IN  \E obs \in FailureObservations(fs, dictionaries, config) :
          LET saved == SaveLearningData(learning_file, failed_searches',
                                        insights', config, now, storage,
                                        last_save)
          IN  /\ failed_searches' =
                   TrimFailedSearches(Append(failed_searches, fs),
                                      config.max_failed_searches)
              /\ insights' = AddInsights(insights, obs, now, config.max_insights)
              /\ learning_file' = saved.file
              /\ last_save' = saved.outcome
              /\ nrec' = nrec + 1
              /\ UNCHANGED <<config, dictionaries, dictionaries_file,
                             storage, now, peer>>

RecordFailedSearch(query, result_count, suggested_matches, session_id) ==
    IF Strip(query) = <<>>
    THEN UNCHANGED <<config, failed_searches, insights, dictionaries,
                     learning_file, dictionaries_file, storage, now, nrec,
                     last_save, peer>>
    ELSE LET fs == FailedSearch(Strip(Lower(query)), now, result_count,
                                suggested_matches, session_id, nrec + 1)
         IN  \E obs \in FailureObservations(fs, dictionaries, config) :
               LET saved == SaveLearningData(learning_file, failed_searches',
                                             insights', config, now, storage,
                                             last_save)
               IN  /\ failed_searches' =
                        TrimFailedSearches(Append(failed_searches, fs),
                                           config.max_failed_searches)
                   /\ insights' = AddInsights(insights, obs, now, config.max_insights)
                   /\ learning_file' = saved.file
                   /\ last_save' = saved.outcome
                   /\ nrec' = nrec + 1
                   /\ UNCHANGED <<config, dictionaries, dictionaries_file,
                                  storage, now, peer>>

\* RecentSearches without the test of the timestamp
RecentSearchesAnyAge(fs, query, window, unselectedOnly, t) ==
    {i \in 1..Len(fs) :
        /\ i > Len(fs) - window
        /\ fs[i].query = Strip(Lower(query))
        /\ unselectedOnly => fs[i].user_selected = None}

\* the list comprehension of record_user_selection / record_user_feedback:
\* the positions in failed_searches of the records it selects
RecentSearches(fs, query, window, unselectedOnly, t) ==
    {i \in 1..Len(fs) :
        /\ i > Len(fs) - window
        /\ fs[i].query = Strip(Lower(query))
        /\ unselectedOnly => fs[i].user_selected = None
        /\ t - fs[i].timestamp < CorrelationSeconds}

\* recent_searches[-1]: the first position
LeastRecent(S) == CHOOSE x \in S : \A y \in S : x <= y

\* recent_searches[0] of the reversed scan: the last position
MostRecent(S) == CHOOSE x \in S : \A y \in S : y <= x

\* record_user_selection without the test `search.user_selected is None`
RecordSelectionAgain(query, selected_binding) ==
    LET recent == RecentSearches(failed_searches, query, SelectionWindow, FALSE, now)
    IN  IF recent = {}
        THEN UNCHANGED <<config, failed_searches, insights, dictionaries,
                         learning_file, dictionaries_file, storage, now,
                         nrec, last_save, peer>>
        ELSE LET i == MostRecent(recent)
                 search == [failed_searches[i] EXCEPT
                              !.user_selected = Some(selected_binding)]
                 saved == SaveLearningData(learning_file, failed_searches',
                                           insights', config, now, storage,
                                           last_save)
             IN  /\ failed_searches' = [failed_searches EXCEPT ![i] = search]
                 /\ insights' = AddInsights(insights, SelectionObservations(search),
                                            now, config.max_insights)
                 /\ learning_file' = saved.file
                 /\ last_save' = saved.outcome
                 /\ UNCHANGED <<config, dictionaries, dictionaries_file,
                                storage, now, nrec, peer>>

RecordUserSelection(query, selected_binding) ==
    LET recent == RecentSearches(failed_searches, query, SelectionWindow, TRUE, now)
    IN  IF recent = {}
        THEN UNCHANGED <<config, failed_searches, insights, dictionaries,
                         learning_file, dictionaries_file, storage, now,
                         nrec, last_save, peer>>
        ELSE LET i == MostRecent(recent)
                 search == [failed_searches[i] EXCEPT
                              !.user_selected = Some(selected_binding)]
                 saved == SaveLearningData(learning_file, failed_searches',
                                           insights', config, now, storage,
                                           last_save)
             IN  /\ failed_searches' = [failed_searches EXCEPT ![i] = search]
                 /\ insights' = AddInsights(insights, SelectionObservations(search),
                                            now, config.max_insights)
                 /\ learning_file' = saved.file
                 /\ last_save' = saved.outcome
                 /\ UNCHANGED <<config, dictionaries, dictionaries_file,
                                storage, now, nrec, peer>>

\* record_user_feedback with the scan of record_user_selection: the last 10
\* failed searches, those without a selection
FeedbackLikeSelection(query, feedback) ==
    LET recent == RecentSearches(failed_searches, query, SelectionWindow, TRUE, now)
    IN  IF recent = {}
        THEN UNCHANGED <<config, failed_searches, insights, dictionaries,
                         learning_file, dictionaries_file, storage, now,
                         nrec, last_save, peer>>
        ELSE LET i == MostRecent(recent)
                 saved == SaveLearningData(learning_file, failed_searches',
                                           insights, config, now, storage,
                                           last_save)
             IN  /\ failed_searches' =
                      [failed_searches EXCEPT ![i].user_feedback = Some(feedback)]
                 /\ learning_file' = saved.file
                 /\ last_save' = saved.outcome
                 /\ UNCHANGED <<config, insights, dictionaries,
                                dictionaries_file, storage, now, nrec, peer>>

RecordUserFeedback(query, feedback) ==
    LET recent == RecentSearches(failed_searches, query, FeedbackWindow, FALSE, now)
    IN  IF recent = {}
        THEN UNCHANGED <<config, failed_searches, insights, dictionaries,
                         learning_file, dictionaries_file, storage, now,
                         nrec, last_save, peer>>
        ELSE LET i == MostRecent(recent)
                 saved == SaveLearningData(learning_file, failed_searches',
                                           insights, config, now, storage,
                                           last_save)
             IN  /\ failed_searches' =
                      [failed_searches EXCEPT ![i].user_feedback = Some(feedback)]
                 /\ learning_file' = saved.file
                 /\ last_save' = saved.outcome
                 /\ UNCHANGED <<config, insights, dictionaries,
                                dictionaries_file, storage, now, nrec, peer>>

\* apply_high_confidence_suggestions saving whatever applied_count is
ApplySavingAlways ==
    LET r == ApplyHighConfidence(dictionaries, insights, config)
    IN  /\ dictionaries' = r.dicts
        /\ dictionaries_file' =
             SaveDictionaries(dictionaries_file, r.dicts, storage)
        /\ UNCHANGED <<config, failed_searches, insights, learning_file,
                       storage, now, nrec, last_save, peer>>

ApplyHighConfidenceSuggestions ==
    LET r == ApplyHighConfidence(dictionaries, insights, config)
    IN  /\ dictionaries' = r.dicts
        /\ dictionaries_file' =
             IF r.applied_count > 0
             THEN SaveDictionaries(dictionaries_file, r.dicts, storage)
             ELSE dictionaries_file
        /\ UNCHANGED <<config, failed_searches, insights, learning_file,
                       storage, now, nrec, last_save, peer>>

\* CleanedData with the insights filtered by age alone
CleanedByAgeAlone(fs, ins, cfg, t) ==
    LET cutoff_time == t - cfg.cleanup_age_days * SecondsPerDay
        keptSearch(s) == s.timestamp > cutoff_time
        keptInsight(i) == i.last_seen > cutoff_time
        kfs == SelectSeq(fs, keptSearch)
        kins == SelectSeq(ins, keptInsight)
    IN  [failed_searches |-> kfs, insights |-> kins,
         removed_count |-> (Len(fs) - Len(kfs)) + (Len(ins) - Len(kins))]

\* what cleanup_old_data keeps and what it returns
CleanedData(fs, ins, cfg, t) ==
    LET cutoff_time == t - cfg.cleanup_age_days * SecondsPerDay
        keptSearch(s) == s.timestamp > cutoff_time
        keptInsight(i) ==
            \/ i.last_seen > cutoff_time
            \/ RatLess(cfg.min_confidence_threshold, i.confidence_score)
        kfs == SelectSeq(fs, keptSearch)
        kins == SelectSeq(ins, keptInsight)
    IN  [failed_searches |-> kfs, insights |-> kins,
         removed_count |-> (Len(fs) - Len(kfs)) + (Len(ins) - Len(kins))]

\* cleanup_old_data without its call of save_learning_data
CleanupUnsaved ==
    LET r == CleanedData(failed_searches, insights, config, now)
    IN  /\ failed_searches' = r.failed_searches
        /\ insights' = r.insights
        /\ UNCHANGED <<config, dictionaries, dictionaries_file, storage, now,
                       nrec, learning_file, last_save, peer>>

\* cleanup_old_data calling save_learning_data whatever it removed
CleanupSavingAlways ==
    LET r == CleanedData(failed_searches, insights, config, now)
        saved == SaveLearningData(learning_file, r.failed_searches, r.insights,
                                  config, now, storage, last_save)
    IN  /\ failed_searches' = r.failed_searches
        /\ insights' = r.insights
        /\ learning_file' = saved.file
        /\ last_save' = saved.outcome
        /\ UNCHANGED <<config, dictionaries, dictionaries_file, storage, now, nrec,
                       peer>>

CleanupOldData ==
    LET r == CleanedData(failed_searches, insights, config, now)
        saved == SaveLearningData(learning_file, r.failed_searches, r.insights,
                                  config, now, storage, last_save)
    IN  /\ failed_searches' = r.failed_searches
        /\ insights' = r.insights
        /\ learning_file' = IF r.removed_count > 0 THEN saved.file ELSE learning_file
        /\ last_save' = IF r.removed_count > 0 THEN saved.outcome ELSE last_save
        /\ UNCHANGED <<config, dictionaries, dictionaries_file, storage, now, nrec,
                       peer>>

\* the clock advances by d seconds
Tick(d) ==
    /\ now' = now + d
    /\ UNCHANGED <<config, failed_searches, insights, dictionaries,
                   learning_file, dictionaries_file, storage, nrec, last_save,
                   peer>>

\* the data directory becomes writable, write-protected or full
StorageChange(st) ==
    /\ st # storage
    /\ storage' = st
    /\ UNCHANGED <<config, failed_searches, insights, dictionaries,
                   learning_file, dictionaries_file, now, nrec, last_save,
                   peer>>

(***************************************************************************)
(* Observation of the calls                                                *)
(***************************************************************************)
NoCall == [op |-> "", query |-> <<>>, hit |-> FALSE, ret |-> 0, streak |-> 0]

\* the call op(query) was made; it found its target (hit) and returned ret;
\* streak is 2 when the call before it was a call of op too
Called(op, query, hit, ret) ==
    last' = [op |-> op, query |-> query, hit |-> hit, ret |-> ret,
             streak |-> IF last.op = op THEN 2 ELSE 1]

Unobserved == last' = NoCall

\* the value apply_high_confidence_suggestions returns in the current state
AppliedCount == ApplyHighConfidence(dictionaries, insights, config).applied_count

\* the engine as constructed over an empty learning_data.json
Fresh(cfg, dicts) ==
    /\ config = cfg
    /\ failed_searches = <<>>
    /\ insights = <<>>
    /\ dictionaries = dicts
    /\ learning_file = NoFile
    /\ dictionaries_file = [state |-> "written", dictionaries |-> dicts]
    /\ storage = "ok"
    /\ now = 0
    /\ nrec = 0
    /\ last_save = [status |-> "none", recovered |-> FALSE]
    /\ peer = NoPeer
    /\ last = NoCall

(***************************************************************************)
(* Spec: mining and applying insights, with a small dictionary             *)
(***************************************************************************)
\* bounds of the model
MaxFailedSearches == 2
MaxInsights == 3
MaxRecorded == 2
MaxTicks == 1

\* the clock is read once every correlation window
TickSeconds == CorrelationSeconds

\* search_dictionaries.json as loaded: snap is a synonym key
LoadedDictionaries ==
    [synonyms |-> (<<"s", "n", "a", "p">> :> <<<<"s", "h", "o", "t">>>>),
     intents |-> <<>>,
     typos |-> <<>>]

\* a misspelling of snap, the same with a capital and a blank, a query with
\* an intent, a blank query
Queries ==
    {<<"s", "n", "p">>,
     <<" ", "S", "n", "p">>,
     <<"o", "p", "e", "n", " ", "a">>,
     <<" ">>}

\* the descriptions of the bindings
Descriptions == {<<"S", "n", "a", "p", " ", "i", "t">>}

SuggestedMatches == {<<>>} \cup {<<d>> : d \in Descriptions}

Init ==
    Fresh(LearningConfig(MaxFailedSearches, MaxInsights, DefaultAutoApplyThreshold),
          LoadedDictionaries)

Next ==
    \/ \E q \in Queries, sm \in SuggestedMatches :
         nrec < MaxRecorded /\ RecordFailedSearch(q, 0, sm, "") /\ Unobserved
    \/ \E q \in Queries, d \in Descriptions :
         RecordUserSelection(q, d) /\ Unobserved
    \/ /\ ApplyHighConfidenceSuggestions
       /\ Called("apply_high_confidence_suggestions", <<>>, AppliedCount > 0,
                 AppliedCount)
    \/ now < MaxTicks * TickSeconds /\ Tick(TickSeconds) /\ UNCHANGED last

Spec == Init /\ [][Next]_vars

(***************************************************************************)
(* Properties of the insight store and of the dictionary mutator           *)
(***************************************************************************)
IdentityOf(x) == <<x.pattern_type, x.original_term, x.suggested_mapping>>

Identities(s) == {IdentityOf(s[k]) : k \in 1..Len(s)}

Occurrences(s, id) == Cardinality({k \in 1..Len(s) : IdentityOf(s[k]) = id})

\* the step is a record_failed_search call that stored a record
IsRecordStep == nrec' = nrec + 1

\* the positions whose user_selected the step has set
SelectedByStep ==
    {i \in 1..Len(failed_searches) :
        /\ nrec' = nrec
        /\ Len(failed_searches') = Len(failed_searches)
        /\ failed_searches[i].user_selected = None
        /\ failed_searches'[i].user_selected # None}

\* what the step passed to _add_insight (in one of the possible orders)
StepObservations ==
    IF IsRecordStep /\ failed_searches' # <<>>
    THEN CHOOSE obs \in FailureObservations(failed_searches'[Len(failed_searches')],
                                           dictionaries, config) : TRUE
    ELSE IF SelectedByStep # {}
    THEN SelectionObservations(failed_searches'[CHOOSE i \in SelectedByStep : TRUE])
    ELSE <<>>

\* the step evicts no insight: all identities fit under max_insights
NothingEvicted(obs) ==
    Cardinality(Identities(insights) \cup Identities(obs)) <= config.max_insights

\* min(1.0, c + 0.1), k times
RECURSIVE RaisedBy(_, _)
RaisedBy(c, k) ==
    IF k = 0 THEN c
    ELSE RaisedBy(IF RatLeq(<<1, 1>>, PlusTenth(c)) THEN <<1, 1>>
                  ELSE PlusTenth(c), k - 1)

\* C6: observing an identity that is in the store adds no record; each
\* such observation adds 1 to evidence_count and 0.1 (capped at 1.0) to
\* confidence_score, whatever confidence it carries, sets last_seen to the
\* time of the observation and keeps first_seen
InsightMerge ==
    [][\A obs \in {StepObservations} :
         (obs # <<>> /\ NothingEvicted(obs)) =>
           /\ Len(insights') = Cardinality(Identities(insights) \cup Identities(obs))
           /\ \A i \in 1..Len(insights) :
                LET e == insights[i]
                    k == Occurrences(obs, IdentityOf(e))
                IN  k > 0 =>
                      \E j \in 1..Len(insights') :
                        /\ IdentityOf(insights'[j]) = IdentityOf(e)
                        /\ insights'[j].evidence_count = e.evidence_count + k
                        /\ insights'[j].confidence_score = RaisedBy(e.confidence_score, k)
                        /\ insights'[j].first_seen = e.first_seen
                        /\ insights'[j].last_seen = now']_vars

\* C6 witness: an insight observed a second time, later than the first
InsightMerged ==
    \E i \in 1..Len(insights) :
        /\ insights[i].evidence_count = 2
        /\ insights[i].first_seen < insights[i].last_seen
        /\ insights[i].confidence_score = <<67, 70>>

\* C7: no two insights have the same (pattern_type, original_term,
\* suggested_mapping), and every observed identity, the pattern_type
\* included, has a record of its own that counts its observations alone
InsightsDistinct ==
    [][/\ \A i, j \in 1..Len(insights') :
            IdentityOf(insights'[i]) = IdentityOf(insights'[j]) => i = j
       /\ \A obs \in {StepObservations} :
            (obs # <<>> /\ NothingEvicted(obs)) =>
              \A k \in 1..Len(obs) :
                \E j \in 1..Len(insights') :
                  /\ IdentityOf(insights'[j]) = IdentityOf(obs[k])
                  /\ IdentityOf(obs[k]) \notin Identities(insights) =>
                       insights'[j].evidence_count =
                         Occurrences(obs, IdentityOf(obs[k]))]_vars

\* C7 witness: a typo and a synonym insight for the same pair of terms
TypoAndSynonymApart ==
    \E i, j \in 1..Len(insights) :
        /\ insights[i].pattern_type = "typo"
        /\ insights[j].pattern_type = "synonym"
        /\ insights[i].original_term = insights[j].original_term
        /\ insights[i].suggested_mapping = insights[j].suggested_mapping
        /\ insights[i].evidence_count # insights[j].evidence_count

\* the insight clears both thresholds of the auto-apply gate
ClearsThresholds(i) ==
    /\ i.evidence_count >= config.min_evidence_count
    /\ RatLeq(config.auto_apply_threshold, i.confidence_score)

\* some insight that clears the thresholds asks for this edit
Backed(pattern_type, original, mapping) ==
    \E i \in 1..Len(insights) :
        /\ ClearsThresholds(insights[i])
        /\ IdentityOf(insights[i]) = <<pattern_type, original, mapping>>

\* every entry of the mapping-to-list dict after that differs from before is
\* the edit of an insight of pattern_type that clears the thresholds
ListsBacked(pattern_type, before, after) ==
    /\ DOMAIN before \subseteq DOMAIN after
    /\ \A k \in DOMAIN after :
         (k \notin DOMAIN before \/ after[k] # before[k]) =>
           \/ /\ Len(after[k]) = 1
              /\ Backed(pattern_type, k, after[k][1])
           \/ /\ k \in DOMAIN before
              /\ Len(after[k]) >= Len(before[k])
              /\ SubSeq(after[k], 1, Len(before[k])) = before[k]
              /\ \A n \in (Len(before[k]) + 1)..Len(after[k]) :
                   Backed(pattern_type, after[k][n], k)

\* C2: whatever a step changes in the synonyms, intents and typos
\* dictionaries is the edit of an insight with evidence_count >=
\* min_evidence_count and confidence_score >= auto_apply_threshold; an
\* insight below either threshold changes nothing
OnlyThresholdInsightsApplied ==
    [][/\ DOMAIN dictionaries.typos \subseteq DOMAIN dictionaries'.typos
       /\ \A k \in DOMAIN dictionaries'.typos :
            (k \notin DOMAIN dictionaries.typos
               \/ dictionaries'.typos[k] # dictionaries.typos[k]) =>
              Backed("typo", k, dictionaries'.typos[k])
       /\ ListsBacked("synonym", dictionaries.synonyms, dictionaries'.synonyms)
       /\ ListsBacked("intent", dictionaries.intents, dictionaries'.intents)]_vars

\* C2 witness: apply_high_confidence_suggestions has run over a store with
\* an insight of enough evidence but a confidence below the threshold
AppliedOverWeakInsight ==
    /\ last.op = "apply_high_confidence_suggestions"
    /\ \E i \in 1..Len(insights) :
         /\ insights[i].evidence_count >= config.min_evidence_count
         /\ RatLess(insights[i].confidence_score, config.auto_apply_threshold)

\* the edit the insight asks for is in the dictionaries d
EditPresent(i, d) ==
    CASE i.pattern_type = "typo" ->
           /\ i.original_term \in DOMAIN d.typos
           /\ d.typos[i.original_term] = i.suggested_mapping
      [] i.pattern_type = "synonym" ->
           \/ /\ i.suggested_mapping \in DOMAIN d.synonyms
              /\ i.original_term \in SeqToSet(d.synonyms[i.suggested_mapping])
           \/ /\ i.original_term \in DOMAIN d.synonyms
              /\ i.suggested_mapping \in SeqToSet(d.synonyms[i.original_term])
      [] i.pattern_type = "intent" ->
           \/ /\ i.suggested_mapping \in DOMAIN d.intents
              /\ i.original_term \in SeqToSet(d.intents[i.suggested_mapping])
           \/ /\ i.original_term \in DOMAIN d.intents
              /\ i.suggested_mapping \in SeqToSet(d.intents[i.original_term])
      [] OTHER -> TRUE

\* the edit is still to be made: for a typo, the misspelling has no entry
EditMissing(i, d) ==
    IF i.pattern_type = "typo" THEN i.original_term \notin DOMAIN d.typos
    ELSE ~EditPresent(i, d)

\* the step is a call of apply_high_confidence_suggestions
IsApplyStep == now' = now /\ last'.op = "apply_high_confidence_suggestions"

\* C3: a call of apply_high_confidence_suggestions writes the edit of every
\* insight that clears both thresholds and is not yet in the dictionaries,
\* and counts it in the value it returns
EligibleInsightApplied ==
    [][IsApplyStep =>
         \A i \in 1..Len(insights) :
           (ClearsThresholds(insights[i]) /\ EditMissing(insights[i], dictionaries)) =>
             /\ EditPresent(insights[i], dictionaries')
             /\ last'.ret >= 1]_vars

\* C4: a call of apply_high_confidence_suggestions that directly follows
\* another returns 0 and leaves the dictionaries and their file as they are
ApplyIdempotent ==
    [][(IsApplyStep /\ last'.streak = 2) =>
         /\ last'.ret = 0
         /\ dictionaries' = dictionaries
         /\ dictionaries_file' = dictionaries_file]_vars

\* C4 witness: two calls in a row over a store with a typo, a synonym or an
\* intent insight that clears the thresholds
AppliedTwice ==
    /\ last.op = "apply_high_confidence_suggestions"
    /\ last.streak = 2
    /\ \E i \in 1..Len(insights) : ClearsThresholds(insights[i])

(***************************************************************************)
(* SpecTracker: the failure tracker, with empty dictionaries               *)
(***************************************************************************)
\* the number of records created, beyond the bound of Spec
TrackerRecorded == 3

\* a query that normalisation changes, and another one
TrackerQueries ==
    {<<"s", "n", "p">>,
     <<" ", "S", "n", "p">>,
     <<"c", "a", "t">>}

\* the queries that fail; the other one is only ever selected or rated
RecordedQueries == {<<" ", "S", "n", "p">>}

InitTracker ==
    Fresh(LearningConfig(MaxFailedSearches, MaxInsights, DefaultAutoApplyThreshold),
          EmptyDictionaries)

\* record_user_selection(q, d), observed
ObservedSelection(q, d) ==
    /\ RecordUserSelection(q, d)
    /\ Called("record_user_selection", Strip(Lower(q)),
              RecentSearches(failed_searches, q, SelectionWindow, TRUE, now) # {}, 0)

\* record_user_feedback(q, f), observed
ObservedFeedback(q, f) ==
    /\ RecordUserFeedback(q, f)
    /\ Called("record_user_feedback", Strip(Lower(q)),
              RecentSearches(failed_searches, q, FeedbackWindow, FALSE, now) # {}, 0)

NextTracker ==
    \/ \E q \in RecordedQueries :
         nrec < TrackerRecorded /\ RecordFailedSearch(q, 0, <<>>, "") /\ Unobserved
    \/ \E q \in TrackerQueries, d \in Descriptions : ObservedSelection(q, d)
    \/ \E q \in TrackerQueries : ObservedFeedback(q, "helpful")
    \/ now < MaxTicks * TickSeconds /\ Tick(TickSeconds) /\ UNCHANGED last

SpecTracker == InitTracker /\ [][NextTracker]_vars

\* C1: with max_failed_searches M >= 1, after n record_failed_search calls
\* the store holds the min(n, M) records created last, oldest first
NewestKept ==
    config.max_failed_searches >= 1 =>
      /\ Len(failed_searches) =
           IF nrec < config.max_failed_searches THEN nrec
           ELSE config.max_failed_searches
      /\ \A k \in 1..Len(failed_searches) :
           failed_searches[k].seq = nrec - Len(failed_searches) + k

\* C1 witness: more records were created than the store holds
OldestEvicted ==
    /\ config.max_failed_searches >= 2
    /\ nrec > config.max_failed_searches
    /\ Len(failed_searches) = config.max_failed_searches

\* no stored failed search has the query q and a timestamp inside the
\* correlation window
NoCorrelatedSearch(q) ==
    \A i \in 1..Len(failed_searches) :
        ~ /\ failed_searches[i].query = q
          /\ now - failed_searches[i].timestamp < CorrelationSeconds

\* the step is a call of record_user_selection or record_user_feedback
IsCorrelationStep ==
    /\ now' = now
    /\ last'.op \in {"record_user_selection", "record_user_feedback"}

\* C9: a record_user_selection or record_user_feedback call whose query no
\* stored failed search inside the window has changes no failed search and
\* no insight and writes nothing
MissDropped ==
    [][(IsCorrelationStep /\ NoCorrelatedSearch(last'.query)) =>
         UNCHANGED <<failed_searches, insights, learning_file, last_save,
                     dictionaries, dictionaries_file>>]_vars

\* C9 witness: a selection call that came after the window of the only
\* failed searches for its query had closed
StaleSelectionDropped ==
    /\ last.op = "record_user_selection"
    /\ ~last.hit
    /\ NoCorrelatedSearch(last.query)
    /\ \E i \in 1..Len(failed_searches) :
         /\ failed_searches[i].query = last.query
         /\ failed_searches[i].user_selected = None

(***************************************************************************)
(* SpecWindow: selections over a store longer than the scan of             *)
(* record_user_selection                                                   *)
(***************************************************************************)
WindowQueries ==
    {<<"s", "n", "p">>,
     <<"c", "a", "t">>}

\* the store an earlier run of record_failed_search("snp") followed by
\* SelectionWindow - 1 rounds of record_failed_search("cat") and
\* record_user_selection("cat", "cat") saved, all within the same second
LoadedSearches ==
    [k \in 1..SelectionWindow |->
        IF k = 1
        THEN FailedSearch(<<"s", "n", "p">>, 0, 0, <<>>, "", k)
        ELSE [FailedSearch(<<"c", "a", "t">>, 0, 0, <<>>, "", k)
                EXCEPT !.user_selected = Some(<<"c", "a", "t">>)]]

\* the engine as constructed over the learning_data.json of that run
InitWindow ==
    /\ config = LearningConfig(SelectionWindow + MaxFailedSearches, MaxInsights,
                               DefaultAutoApplyThreshold)
    /\ failed_searches = LoadedSearches
    /\ insights = <<>>
    /\ dictionaries = EmptyDictionaries
    /\ learning_file = LearningData(LoadedSearches, <<>>, config, 0)
    /\ dictionaries_file = [state |-> "written", dictionaries |-> EmptyDictionaries]
    /\ storage = "ok"
    /\ now = 0
    /\ nrec = SelectionWindow
    /\ last_save = [status |-> "none", recovered |-> FALSE]
    /\ peer = NoPeer
    /\ last = NoCall

NextWindow ==
    \/ \E q \in WindowQueries :
         /\ nrec < SelectionWindow + MaxRecorded
         /\ RecordFailedSearch(q, 0, <<>>, "")
         /\ Unobserved
    \/ \E q \in WindowQueries, d \in Descriptions : ObservedSelection(q, d)
    \/ now < MaxTicks * TickSeconds /\ Tick(TickSeconds) /\ UNCHANGED last

SpecWindow == InitWindow /\ [][NextWindow]_vars

\* the step is a call of record_user_selection
IsSelectionStep == now' = now /\ last'.op = "record_user_selection"

\* the positions after position lo of the failed searches with the query q,
\* no selection yet and a timestamp inside the correlation window
Selectable(q, lo) ==
    {i \in 1..Len(failed_searches) :
        /\ i > lo
        /\ failed_searches[i].query = q
        /\ failed_searches[i].user_selected = None
        /\ now - failed_searches[i].timestamp < CorrelationSeconds}

\* the step sets user_selected on the last position of S and changes no
\* other failed search; with S empty it changes none
MarksNewestOf(S) ==
    IF S = {}
    THEN failed_searches' = failed_searches
    ELSE LET newest == CHOOSE i \in S : \A j \in S : j <= i
         IN  \E b \in Descriptions :
               failed_searches' =
                 [failed_searches EXCEPT ![newest].user_selected = Some(b)]

\* C8 as stated: record_user_selection marks the most recent failed search
\* with the normalised query, no selection yet and a timestamp inside the
\* window, wherever it is in the store, and no other
SelectionAnywhere ==
    [][IsSelectionStep => MarksNewestOf(Selectable(last'.query, 0))]_vars

\* C8: record_user_selection marks the most recent failed search with the
\* normalised query, no selection yet and a timestamp inside the window
\* among the last 10 of the store, and no other
SelectionAmongLastTen ==
    [][IsSelectionStep =>
         MarksNewestOf(Selectable(last'.query,
                                  Len(failed_searches) - SelectionWindow))]_vars

\* C8 witness: a selection was recorded on a failed search while an older
\* one among the last 10 was as eligible
NewestSelected ==
    /\ last.op = "record_user_selection"
    /\ last.hit
    /\ \E i, j \in 1..Len(failed_searches) :
         /\ Len(failed_searches) - SelectionWindow < i
         /\ i < j
         /\ failed_searches[i].query = last.query
         /\ failed_searches[j].query = last.query
         /\ failed_searches[i].user_selected = None
         /\ failed_searches[j].user_selected \in {Some(b) : b \in Descriptions}
         /\ now - failed_searches[i].timestamp < CorrelationSeconds

(***************************************************************************)
(* SpecStorage: the tracker over a data directory that stops and resumes   *)
(* accepting writes                                                        *)
(***************************************************************************)
StorageStates == {"ok", "denied", "full"}

NextStorage ==
    \/ \E q \in RecordedQueries :
         nrec < MaxRecorded /\ RecordFailedSearch(q, 0, <<>>, "") /\ Unobserved
    \/ \E q \in RecordedQueries, d \in Descriptions : ObservedSelection(q, d)
    \/ \E q \in RecordedQueries : ObservedFeedback(q, "helpful")
    \/ \E st \in StorageStates : StorageChange(st) /\ Unobserved

SpecStorage == InitTracker /\ [][NextStorage]_vars

\* C10: a save that fails raises nothing to the caller of
\* record_failed_search, record_user_selection or record_user_feedback, the
\* call has updated the state in memory all the same, and after a save that
\* succeeds the file is the whole state in memory
SaveFailureTolerated ==
    [][/\ last_save'.status # "raised"
       /\ (storage # "ok" /\ IsRecordStep /\ config.max_failed_searches >= 1) =>
            /\ failed_searches' # <<>>
            /\ failed_searches'[Len(failed_searches')].seq = nrec'
       /\ (storage # "ok" /\ last'.op = "record_user_selection" /\ last'.hit) =>
            \E i \in 1..Len(failed_searches) :
               /\ failed_searches[i].user_selected = None
               /\ failed_searches'[i].user_selected # None
       /\ (storage # "ok" /\ last'.op = "record_user_feedback" /\ last'.hit) =>
            \E i \in 1..Len(failed_searches') :
               /\ failed_searches'[i].query = last'.query
               /\ failed_searches'[i].user_feedback # None
       /\ last_save'.status = "ok" =>
            learning_file' = LearningData(failed_searches', insights', config',
                                          learning_file'.last_updated)]_vars

\* C10 witness: a save succeeded after a failed one, and the file holds the
\* two failed searches and the selection that are in memory
SavedAfterFailure ==
    /\ last_save.status = "ok"
    /\ last_save.recovered
    /\ Len(failed_searches) >= 2
    /\ \E i \in 1..Len(failed_searches) : failed_searches[i].user_selected # None
    /\ learning_file.state = "written"
    /\ learning_file.failed_searches = failed_searches
    /\ learning_file.insights = insights

(***************************************************************************)
(* SpecLoop: from a misspelt query to the typo dictionary                  *)
(***************************************************************************)
\* auto_apply_threshold = 0.6
LoopAutoApplyThreshold == <<3, 5>>

\* search_dictionaries.json as loaded: screenshot is a synonym key
ScreenshotDictionaries ==
    [synonyms |-> (<<"s", "c", "r", "e", "e", "n", "s", "h", "o", "t">> :>
                     <<<<"c", "a", "p", "t", "u", "r", "e">>>>),
     intents |-> <<>>,
     typos |-> <<>>]

LoopQueries ==
    {<<"s", "c", "e", "e", "n", "s", "h", "o", "t">>,
     <<"S", "c", "e", "e", "n", "s", "h", "o", "t", " ">>}

LoopSuggestedMatches ==
    {<<>>,
     << <<"S", "c", "r", "e", "e", "n", "s", "h", "o", "t", " ", "-", " ",
          "F", "u", "l", "l", " ", "s", "c", "r", "e", "e", "n">> >>}

InitLoop ==
    Fresh(LearningConfig(MaxFailedSearches, MaxInsights, LoopAutoApplyThreshold),
          ScreenshotDictionaries)

NextLoop ==
    \/ \E q \in LoopQueries, sm \in LoopSuggestedMatches :
         nrec < MaxRecorded /\ RecordFailedSearch(q, 0, sm, "") /\ Unobserved
    \/ /\ ApplyHighConfidenceSuggestions
       /\ Called("apply_high_confidence_suggestions", <<>>, AppliedCount > 0,
                 AppliedCount)
    \/ now < MaxTicks * TickSeconds /\ Tick(TickSeconds) /\ UNCHANGED last

SpecLoop == InitLoop /\ [][NextLoop]_vars

\* C5: once 'sceenshot' has been recorded twice the store holds the typo
\* insight sceenshot -> screenshot with evidence_count >= 1, and after a
\* following apply_high_confidence_suggestions typos['sceenshot'] is
\* 'screenshot'
LoopCloses ==
    LET sceenshot == <<"s", "c", "e", "e", "n", "s", "h", "o", "t">>
        screenshot == <<"s", "c", "r", "e", "e", "n", "s", "h", "o", "t">>
    IN  nrec >= 2 =>
          /\ \E i \in 1..Len(insights) :
               /\ IdentityOf(insights[i]) = <<"typo", sceenshot, screenshot>>
               /\ insights[i].evidence_count >= 1
          /\ last.op = "apply_high_confidence_suggestions" =>
               /\ sceenshot \in DOMAIN dictionaries.typos
               /\ dictionaries.typos[sceenshot] = screenshot

(***************************************************************************)
(* Construction: __init__, load_learning_data, load_dictionaries           *)
(***************************************************************************)
DefaultMaxFailedSearches == 1000
DefaultMaxInsights == 500

\* LearningConfig()
DefaultConfig ==
    LearningConfig(DefaultMaxFailedSearches, DefaultMaxInsights,
                   DefaultAutoApplyThreshold)

\* the fields of FailedSearch without and with a default value
RequiredSearchFields == {"query", "timestamp", "result_count", "suggested_matches"}
OptionalSearchFields == {"user_selected", "user_feedback", "session_id", "seq"}

\* the fields of LearningInsight without and with a default value
RequiredInsightFields ==
    {"pattern_type", "original_term", "suggested_mapping", "confidence_score",
     "evidence_count", "first_seen", "last_seen"}
OptionalInsightFields == {"user_confirmations", "user_rejections"}

\* cls(**data) returns: every field without a default is given and no
\* keyword is unknown (otherwise it raises TypeError)
Constructs(data, required, optional) ==
    /\ required \subseteq DOMAIN data
    /\ DOMAIN data \subseteq required \cup optional

\* the loop over data['config'] of load_learning_data
LoadConfig(cfg, data) ==
    [k \in DOMAIN cfg |-> IF k \in DOMAIN data THEN data[k] ELSE cfg[k]]

\* load_learning_data on a freshly initialised engine: what it leaves in
\* failed_searches, insights and config.  The three assignments are made in
\* this order inside one try block, so an exception keeps those made before.
LoadLearningData(file) ==
    LET empty == [failed_searches |-> <<>>, insights |-> <<>>,
                  config |-> DefaultConfig]
    IN  IF file.state # "written" THEN empty
        ELSE IF \E i \in 1..Len(file.failed_searches) :
                  ~Constructs(file.failed_searches[i], RequiredSearchFields,
                              OptionalSearchFields)
        THEN empty
        ELSE IF \E i \in 1..Len(file.insights) :
                  ~Constructs(file.insights[i], RequiredInsightFields,
                              OptionalInsightFields)
        THEN [empty EXCEPT !.failed_searches = file.failed_searches]
        ELSE [failed_searches |-> file.failed_searches,
              insights |-> file.insights,
              config |-> LoadConfig(DefaultConfig, file.config)]

\* load_dictionaries on a freshly initialised engine
LoadDictionaries(file) ==
    IF file.state = "written" THEN file.dictionaries ELSE EmptyDictionaries

\* the process ends and SearchLearningSystem(data_path) is constructed again
Construct ==
    LET loaded == LoadLearningData(learning_file)
    IN  /\ config' = loaded.config
        /\ failed_searches' = loaded.failed_searches
        /\ insights' = loaded.insights
        /\ dictionaries' = LoadDictionaries(dictionaries_file)
        /\ last_save' = [status |-> "none", recovered |-> FALSE]
        /\ UNCHANGED <<learning_file, dictionaries_file, storage, now, nrec,
                       peer>>

\* a record without the field f
Without(r, f) == [k \in DOMAIN r \ {f} |-> r[k]]

\* learning_data.json is edited outside the engine: the failed search at
\* position i loses its timestamp
DamageSearch(i) ==
    /\ learning_file.state = "written"
    /\ i \in 1..Len(learning_file.failed_searches)
    /\ "timestamp" \in DOMAIN learning_file.failed_searches[i]
    /\ learning_file' =
         [learning_file EXCEPT !.failed_searches[i] = Without(@, "timestamp")]
    /\ UNCHANGED <<config, failed_searches, insights, dictionaries,
                   dictionaries_file, storage, now, nrec, last_save, peer>>

\* the same for the insight at position i and its last_seen
DamageInsight(i) ==
    /\ learning_file.state = "written"
    /\ i \in 1..Len(learning_file.insights)
    /\ "last_seen" \in DOMAIN learning_file.insights[i]
    /\ learning_file' =
         [learning_file EXCEPT !.insights[i] = Without(@, "last_seen")]
    /\ UNCHANGED <<config, failed_searches, insights, dictionaries,
                   dictionaries_file, storage, now, nrec, last_save, peer>>

\* learning_data.json is deleted
RemoveFile ==
    /\ learning_file.state # "absent"
    /\ learning_file' = NoFile
    /\ UNCHANGED <<config, failed_searches, insights, dictionaries,
                   dictionaries_file, storage, now, nrec, last_save, peer>>

(***************************************************************************)
(* SpecLoad: the engine restarted over files that were damaged             *)
(***************************************************************************)
NextLoad ==
    \/ \E q \in RecordedQueries :
         nrec < MaxRecorded /\ RecordFailedSearch(q, 0, <<>>, "") /\ Unobserved
    \/ \E q \in RecordedQueries, d \in Descriptions : ObservedSelection(q, d)
    \/ \E st \in StorageStates : StorageChange(st) /\ Unobserved
    \/ \E i \in 1..MaxRecorded : DamageSearch(i) /\ Unobserved
    \/ \E i \in 1..MaxInsights : DamageInsight(i) /\ Unobserved
    \/ RemoveFile /\ Unobserved
    \/ Construct /\ Called("__init__", <<>>, TRUE, 0)

SpecLoad == InitTracker /\ [][NextLoad]_vars

\* learning_data.json is missing, is not valid JSON or holds a record that
\* cannot be loaded
Unloadable(file) ==
    \/ file.state # "written"
    \/ \E i \in 1..Len(file.failed_searches) :
         ~(RequiredSearchFields \subseteq DOMAIN file.failed_searches[i])
    \/ \E i \in 1..Len(file.insights) :
         ~(RequiredInsightFields \subseteq DOMAIN file.insights[i])

\* C11: constructing the engine over a learning-data file that is missing,
\* not valid JSON or holds a failed search or insight that cannot be loaded
\* returns normally with no failed searches, no insights and the default
\* config
LoadFallsBackToEmpty ==
    [][(last'.op = "__init__" /\ Unloadable(learning_file)) =>
         /\ last'.hit
         /\ failed_searches' = <<>>
         /\ insights' = <<>>
         /\ config' = DefaultConfig]_vars

(***************************************************************************)
(* SpecCleanup: the tracker over weeks, with cleanup_old_data              *)
(***************************************************************************)
\* min_confidence_threshold = 0.5: the confidence of a synonym insight
\* seen once
CleanupConfidenceThreshold == <<1, 2>>

\* the clock is read every half of cleanup_age_days
AgeSeconds == (DefaultCleanupAgeDays \div 2) * SecondsPerDay

InitCleanup ==
    Fresh([LearningConfig(MaxFailedSearches, MaxInsights, DefaultAutoApplyThreshold)
             EXCEPT !.min_confidence_threshold = CleanupConfidenceThreshold],
          LoadedDictionaries)

\* cleanup_old_data(), observed
ObservedCleanup ==
    /\ CleanupOldData
    /\ LET removed == CleanedData(failed_searches, insights, config, now).removed_count
       IN  Called("cleanup_old_data", <<>>, removed > 0, removed)

NextCleanup ==
    \/ \E q \in RecordedQueries :
         nrec < MaxRecorded /\ RecordFailedSearch(q, 0, <<>>, "") /\ Unobserved
    \/ \E q \in RecordedQueries, d \in Descriptions : ObservedSelection(q, d)
    \/ \E q \in RecordedQueries : ObservedFeedback(q, "helpful")
    \/ ObservedCleanup
    \/ now < (MaxTicks + 2) * AgeSeconds /\ Tick(AgeSeconds) /\ Unobserved

SpecCleanup == InitCleanup /\ [][NextCleanup]_vars

\* C12: with the storage writable, after every call of record_failed_search,
\* record_user_selection, record_user_feedback and cleanup_old_data the
\* failed searches and insights in learning_data.json are those in memory
WriteThrough ==
    storage = "ok" =>
      /\ learning_file.failed_searches = failed_searches
      /\ learning_file.insights = insights

\* C12 witness: cleanup_old_data has removed something and kept something,
\* and the file is what is left in memory
CleanupPersisted ==
    /\ last.op = "cleanup_old_data"
    /\ last.hit
    /\ insights # <<>>
    /\ learning_file.state = "written"
    /\ learning_file.failed_searches = failed_searches
    /\ learning_file.insights = insights

\* the step is a call of cleanup_old_data
IsCleanupStep == last'.op = "cleanup_old_data"

\* the time before which cleanup_old_data counts a timestamp as old;
\* old is "not later than the cutoff", new is "later than the cutoff"
Cutoff == now - config.cleanup_age_days * SecondsPerDay

\* the failed search or insight r is still in the list s after the step
KeptIn(r, s) == \E j \in 1..Len(s) : s[j] = r

\* C13: cleanup_old_data removes every old failed search and keeps every
\* new one, and removes an insight if and only if its last_seen is old and
\* its confidence_score does not exceed min_confidence_threshold
CleanupByAgeAndConfidence ==
    [][IsCleanupStep =>
         /\ \A i \in 1..Len(failed_searches) :
              KeptIn(failed_searches[i], failed_searches') <=>
                failed_searches[i].timestamp > Cutoff
         /\ \A i \in 1..Len(insights) :
              ~KeptIn(insights[i], insights') <=>
                /\ insights[i].last_seen <= Cutoff
                /\ RatLeq(insights[i].confidence_score,
                          config.min_confidence_threshold)
         /\ \A j \in 1..Len(failed_searches') :
              KeptIn(failed_searches'[j], failed_searches)
         /\ \A j \in 1..Len(insights') : KeptIn(insights'[j], insights)]_vars

\* C13 witness: cleanup_old_data has removed every failed search and an
\* insight besides, and has kept an insight as old whose confidence exceeds
\* the threshold
ConfidentInsightSurvived ==
    /\ last.op = "cleanup_old_data"
    /\ failed_searches = <<>>
    /\ last.ret > nrec
    /\ \E i \in 1..Len(insights) :
         /\ insights[i].last_seen < Cutoff
         /\ RatLess(config.min_confidence_threshold, insights[i].confidence_score)

(***************************************************************************)
(* SpecManual: all the operations over dictionaries with entries written   *)
(* by hand                                                                 *)
(***************************************************************************)
\* search_dictionaries.json as loaded: a synonym key, a typo correction and
\* an intent key, each of which some insight of the queries below names
ManualDictionaries ==
    [synonyms |-> (<<"s", "n", "a", "p">> :> <<<<"s", "h", "o", "t">>>>),
     intents |-> (<<"o", "p", "e", "n", " ", "a">> :>
                    <<<<"s", "t", "a", "r", "t">>>>),
     typos |-> (<<"s", "n", "p">> :> <<"s", "n", "i", "p">>)]

\* a misspelling that has a correction, a dictionary term that found
\* nothing, a query with an intent
ManualQueries ==
    {<<"s", "n", "p">>,
     <<"s", "n", "a", "p">>,
     <<"o", "p", "e", "n", " ", "a">>}

\* auto_apply_threshold = 0.75: an intent insight seen twice clears it
ManualAutoApplyThreshold == <<3, 4>>

InitManual ==
    Fresh(LearningConfig(MaxFailedSearches, MaxInsights, ManualAutoApplyThreshold),
          ManualDictionaries)

\* apply_high_confidence_suggestions(), observed
ObservedApply ==
    /\ ApplyHighConfidenceSuggestions
    /\ Called("apply_high_confidence_suggestions", <<>>, AppliedCount > 0,
              AppliedCount)

NextManual ==
    \/ \E q \in ManualQueries :
         nrec < MaxRecorded /\ RecordFailedSearch(q, 0, <<>>, "") /\ Unobserved
    \/ \E q \in RecordedQueries, d \in Descriptions : ObservedSelection(q, d)
    \/ \E q \in RecordedQueries : ObservedFeedback(q, "helpful")
    \/ ObservedApply
    \/ ObservedCleanup
    \/ now < MaxTicks * 2 * AgeSeconds /\ Tick(2 * AgeSeconds) /\ Unobserved

SpecManual == InitManual /\ [][NextManual]_vars

\* C14: apply_high_confidence_suggestions leaves every misspelling that has
\* a correction in typos with the same correction
TypoCorrectionsKept ==
    [][IsApplyStep =>
         \A w \in DOMAIN dictionaries.typos :
           /\ w \in DOMAIN dictionaries'.typos
           /\ dictionaries'.typos[w] = dictionaries.typos[w]]_vars

\* C14 witness: apply_high_confidence_suggestions ran with an insight in the
\* store that clears both thresholds and names another correction for a
\* misspelling already in typos
RivalCorrectionIgnored ==
    /\ last.op = "apply_high_confidence_suggestions"
    /\ \E i \in 1..Len(insights) :
         /\ insights[i].pattern_type = "typo"
         /\ ClearsThresholds(insights[i])
         /\ insights[i].original_term \in DOMAIN dictionaries.typos
         /\ dictionaries.typos[insights[i].original_term] #
              insights[i].suggested_mapping

\* every key of the mapping-to-list dict before is a key of the one after,
\* with every value it had
ListsGrow(before, after) ==
    \A k \in DOMAIN before :
        /\ k \in DOMAIN after
        /\ SeqToSet(before[k]) \subseteq SeqToSet(after[k])

\* C15: no operation removes a key from synonyms, intents or typos, or
\* removes or replaces a value stored under a key
DictionariesAppendOnly ==
    [][/\ ListsGrow(dictionaries.synonyms, dictionaries'.synonyms)
       /\ ListsGrow(dictionaries.intents, dictionaries'.intents)
       /\ \A w \in DOMAIN dictionaries.typos :
            /\ w \in DOMAIN dictionaries'.typos
            /\ dictionaries'.typos[w] = dictionaries.typos[w]]_vars

\* C15 witness: apply_high_confidence_suggestions ran with an insight in the
\* store that clears both thresholds and names a new value for a key that
\* intents already has, and the hand-written entries are all there
ManualEntriesIntact ==
    /\ last.op = "apply_high_confidence_suggestions"
    /\ \E i \in 1..Len(insights) :
         /\ insights[i].pattern_type = "intent"
         /\ ClearsThresholds(insights[i])
         /\ insights[i].original_term \in DOMAIN dictionaries.intents
         /\ insights[i].suggested_mapping \notin
              SeqToSet(dictionaries.intents[insights[i].original_term])
    /\ ListsGrow(ManualDictionaries.synonyms, dictionaries.synonyms)
    /\ ListsGrow(ManualDictionaries.intents, dictionaries.intents)

\* the dictionaries d have no entry that maps a term to itself
NoSelfMapping(d) ==
    /\ \A w \in DOMAIN d.typos : d.typos[w] # w
    /\ \A k \in DOMAIN d.synonyms : k \notin SeqToSet(d.synonyms[k])
    /\ \A k \in DOMAIN d.intents : k \notin SeqToSet(d.intents[k])

\* C16: started from dictionaries without self-mappings, the engine never
\* holds a typos entry that maps a misspelling to itself nor a synonyms or
\* intents entry that lists its own key
NoTermMapsToItself == NoSelfMapping(ManualDictionaries) => NoSelfMapping(dictionaries)

\* C16 witness: apply_high_confidence_suggestions ran with an insight in the
\* store that clears both thresholds and maps a term to itself
SelfInsightNotWritten ==
    /\ last.op = "apply_high_confidence_suggestions"
    /\ NoSelfMapping(dictionaries)
    /\ \E i \in 1..Len(insights) :
         /\ ClearsThresholds(insights[i])
         /\ insights[i].original_term = insights[i].suggested_mapping

\* the orders in which the step may have passed its observations to
\* _add_insight
StepOrders ==
    IF IsRecordStep /\ failed_searches' # <<>>
    THEN FailureObservations(failed_searches'[Len(failed_searches')],
                             dictionaries, config)
    ELSE IF SelectedByStep # {}
    THEN {SelectionObservations(failed_searches'[CHOOSE i \in SelectedByStep : TRUE])}
    ELSE {}

\* the (confidence_score, last_seen) pair of e is less than or equal to
\* that of r
PairLeq(e, r) ==
    \/ RatLess(e.confidence_score, r.confidence_score)
    \/ /\ e.confidence_score = r.confidence_score
       /\ e.last_seen <= r.last_seen

\* one _add_insight call on the store ins leaves at most cap insights, and
\* each insight it drops has a pair less than or equal to that of each
\* insight it leaves
DropsLowest(ins, o, t, cap) ==
    LET untrimmed == AddInsight(ins, o, t, Len(ins) + 1)
        after == AddInsight(ins, o, t, cap)
    IN  /\ Len(after) <= cap
        /\ \A i \in 1..Len(untrimmed) :
             ~KeptIn(untrimmed[i], after) =>
               \A j \in 1..Len(after) : PairLeq(untrimmed[i], after[j])

\* the same for each call of a sequence of _add_insight calls
RECURSIVE DropsLowestAlong(_, _, _, _)
DropsLowestAlong(ins, obs, t, cap) ==
    IF obs = <<>> THEN TRUE
    ELSE /\ DropsLowest(ins, Head(obs), t, cap)
         /\ DropsLowestAlong(AddInsight(ins, Head(obs), t, cap), Tail(obs), t, cap)

\* C17: with max_insights >= 1, every _add_insight call of every operation
\* leaves at most max_insights insights in the store, and the insights it
\* evicts have (confidence_score, last_seen) pairs less than or equal to
\* those of the insights it retains
EvictionKeepsBest ==
    [][config.max_insights >= 1 =>
         /\ Len(insights') <= config.max_insights
         /\ \A obs \in StepOrders :
              AddInsights(insights, obs, now, config.max_insights) = insights' =>
                DropsLowestAlong(insights, obs, now, config.max_insights)]_vars

\* C17 witness: the store is at its cap and lacks an insight that the
\* selection recorded on a stored failed search has observed
ObservedInsightEvicted ==
    /\ Len(insights) = config.max_insights
    /\ \E i \in 1..Len(failed_searches) :
         /\ failed_searches[i].user_selected # None
         /\ \E k \in 1..Len(SelectionObservations(failed_searches[i])) :
              <<SelectionObservations(failed_searches[i])[k].pattern_type,
                SelectionObservations(failed_searches[i])[k].original_term,
                SelectionObservations(failed_searches[i])[k].suggested_mapping>>
                \notin Identities(insights)


(***************************************************************************)
(* natural_language_search.py: scoring and ranking of the bindings         *)
(***************************************************************************)
\* the increments of score_binding
ExactTextScore == 10
ExactSearchScore == 8
WordTextScore == 3
WordSearchScore == 2
FuzzyScore == 5

\* len(word) > 2 in score_binding
MinPartialWordLen == 2

\* n and cutoff of the get_close_matches call in score_binding
FuzzyMatches == 1
FuzzyCutoff == <<4, 5>>

\* Python's  sub in s  on str
Contains(sub, s) ==
    \E i \in 0..(Len(s) - Len(sub)) :
        \A k \in 1..Len(sub) : s[i + k] = sub[k]

\* str.split(): the maximal runs of characters that are not white space
RECURSIVE SplitFrom(_, _, _)
SplitFrom(s, i, cur) ==
    IF i > Len(s) THEN (IF cur = <<>> THEN <<>> ELSE <<cur>>)
    ELSE IF ~IsSpace(s[i]) THEN SplitFrom(s, i + 1, Append(cur, s[i]))
    ELSE (IF cur = <<>> THEN <<>> ELSE <<cur>>) \o SplitFrom(s, i + 1, <<>>)

Split(s) == SplitFrom(s, 1, <<>>)

\* a binding as parse_i3_config hands it over; search_text is '' when the
\* binding carries none
Binding(description, command, key, search_text) ==
    [description |-> description, command |-> command, key |-> key,
     search_text |-> search_text]

\* binding_text and binding_search of score_binding
BindingText(binding) ==
    Lower(binding.description \o <<" ">> \o binding.command \o <<" ">>
            \o binding.key)

BindingSearch(binding) == Lower(binding.search_text)

\* the inner loop of score_binding over the words of one keyword
RECURSIVE WordsScore(_, _, _)
WordsScore(words, text, search) ==
    IF words = <<>> THEN 0
    ELSE (IF Len(Head(words)) > MinPartialWordLen
          THEN (IF Contains(Head(words), text) THEN WordTextScore
                ELSE IF Contains(Head(words), search) THEN WordSearchScore
                ELSE 0)
          ELSE 0) + WordsScore(Tail(words), text, search)

\* the first loop of score_binding with an if in place of the elif
ExactScoreBothTiers(keyword, text, search) ==
    (IF Contains(keyword, text) THEN ExactTextScore ELSE 0)
      + (IF Contains(keyword, search) THEN ExactSearchScore ELSE 0)
      + WordsScore(Split(keyword), text, search)

\* the first loop of score_binding with the inner loop run only for a
\* keyword of several words
ExactScoreManyWords(keyword, text, search) ==
    (IF Contains(keyword, text) THEN ExactTextScore
     ELSE IF Contains(keyword, search) THEN ExactSearchScore
     ELSE 0)
      + (IF Len(Split(keyword)) > 1
         THEN WordsScore(Split(keyword), text, search) ELSE 0)

\* what one keyword adds in the first loop of score_binding
ExactScore(keyword, text, search) ==
    (IF Contains(keyword, text) THEN ExactTextScore
     ELSE IF Contains(keyword, search) THEN ExactSearchScore
     ELSE 0) + WordsScore(Split(keyword), text, search)

\* what one keyword adds in the second loop of score_binding
CloseScore(keyword, text) ==
    IF GetCloseMatches(keyword, SeqToSet(Split(text)), FuzzyMatches,
                       FuzzyCutoff) # <<>>
    THEN FuzzyScore ELSE 0

\* score_binding(binding, keywords): the two loops over the keywords
RECURSIVE ScoreBinding(_, _)
ScoreBinding(binding, keywords) ==
    IF keywords = <<>> THEN 0
    ELSE ExactScore(Head(keywords), BindingText(binding), BindingSearch(binding))
           + CloseScore(Head(keywords), BindingText(binding))
           + ScoreBinding(binding, Tail(keywords))

\* the loop of search: the bindings that score above 0, in input order
RECURSIVE Scored(_, _)
Scored(bindings, keywords) ==
    IF bindings = <<>> THEN <<>>
    ELSE LET score == ScoreBinding(Head(bindings), keywords)
         IN  (IF score > 0 THEN <<<<Head(bindings), score>>>> ELSE <<>>)
               \o Scored(Tail(bindings), keywords)

\* an insertion that puts the entry before the entries of its own score
RECURSIVE InsertBeforeEqual(_, _)
InsertBeforeEqual(sorted, x) ==
    IF sorted = <<>> THEN <<x>>
    ELSE IF Head(sorted)[2] > x[2] THEN <<Head(sorted)>> \o InsertBeforeEqual(Tail(sorted), x)
    ELSE <<x>> \o sorted

\* list.sort(key=lambda x: x[1], reverse=True): stable, so an entry goes
\* behind every entry whose score is not smaller
RECURSIVE InsertByScore(_, _)
InsertByScore(sorted, x) ==
    IF sorted = <<>> THEN <<x>>
    ELSE IF Head(sorted)[2] >= x[2] THEN <<Head(sorted)>> \o InsertByScore(Tail(sorted), x)
    ELSE <<x>> \o sorted

RECURSIVE SortByScore(_)
SortByScore(results) ==
    IF results = <<>> THEN <<>>
    ELSE InsertByScore(SortByScore(SubSeq(results, 1, Len(results) - 1)),
                       results[Len(results)])

\* search(query, bindings), keywords being what generate_search_keywords
\* returned for the query
SearchResults(keywords, bindings) == SortByScore(Scored(bindings, keywords))

(***************************************************************************)
(* SpecSearch: ranking the bindings of a small configuration               *)
(***************************************************************************)
\* the longest list of bindings handed to search
MaxBindings == 4

\* two bindings alike but for their key, one found by its search_text only,
\* one that shares no word with the others
SnapA == Binding(<<"S", "n", "a", "p">>, <<"s", "h", "o", "t">>, <<"a">>, <<>>)
SnapB == Binding(<<"S", "n", "a", "p">>, <<"s", "h", "o", "t">>, <<"b">>, <<>>)
OpenTerm == Binding(<<"O", "p", "e", "n">>, <<"t", "e", "r", "m">>, <<"c">>, <<"s", "h", "o", "t">>)
LockScreen == Binding(<<"L", "o", "c", "k">>, <<"l", "o", "c", "k">>, <<"d">>, <<>>)
Reload == Binding(<<"L", "o", "a", "d">>, <<"r", "e", "l", "o", "a", "d">>, <<"r">>, <<>>)

ConfiguredBindings == {SnapA, SnapB, OpenTerm, LockScreen, Reload}

\* the lists of at most n bindings, none twice
RECURSIVE ListsUpTo(_, _)
ListsUpTo(S, n) ==
    IF n = 0 THEN {<<>>}
    ELSE {<<>>} \cup UNION {{<<x>> \o r : r \in ListsUpTo(S \ {x}, n - 1)} : x \in S}

BindingLists == ListsUpTo(ConfiguredBindings, MaxBindings)

\* what generate_search_keywords returns for the queries '', 'shot', 'snp'
\* and 'lock a'
KeywordLists ==
    {<<>>,
     <<<<"s", "h", "o", "t">>>>,
     <<<<"s", "n", "p">>>>,
     <<<<"l", "o", "c", "k">>, <<"a">>>>}

\* process_query(query, bindings) is entered, no other call being in
\* flight; keywords is what generate_search_keywords returns for the query
ProcessQuery(keywords, bindings) ==
    /\ last.op # "process_query"
    /\ Called("process_query", [keywords |-> keywords, bindings |-> bindings],
              FALSE, <<>>)
    /\ UNCHANGED <<config, failed_searches, insights, dictionaries,
                   learning_file, dictionaries_file, storage, now, nrec,
                   last_save, peer>>

\* the search(query, bindings) call of the process_query in flight: it
\* reads nothing of the learning engine and changes nothing
Search ==
    /\ last.op = "process_query"
    /\ Called("search", last.query,
              SearchResults(last.query.keywords, last.query.bindings) # <<>>,
              SearchResults(last.query.keywords, last.query.bindings))
    /\ UNCHANGED <<config, failed_searches, insights, dictionaries,
                   learning_file, dictionaries_file, storage, now, nrec,
                   last_save, peer>>

InitSearch == Fresh(DefaultConfig, EmptyDictionaries)

NextSearch ==
    \/ \E keywords \in KeywordLists, bindings \in BindingLists :
         ProcessQuery(keywords, bindings)
    \/ Search

SpecSearch == InitSearch /\ [][NextSearch]_vars

\* the positions of the input list whose binding scores above 0
Matching(keywords, bindings) ==
    {j \in 1..Len(bindings) : ScoreBinding(bindings[j], keywords) > 0}

\* ret lists the bindings at the positions P once each, with their scores,
\* higher scores first and equal scores in the order of their positions
RanksPositions(ret, keywords, bindings, P) ==
    /\ Len(ret) = Cardinality(P)
    /\ \E p \in [1..Len(ret) -> P] :
         /\ \A i \in 1..Len(ret) :
              /\ ret[i] = <<bindings[p[i]], ScoreBinding(bindings[p[i]], keywords)>>
              /\ ret[i][2] >= 0
         /\ \A i, k \in 1..Len(ret) :
              i < k => \/ ret[i][2] > ret[k][2]
                       \/ ret[i][2] = ret[k][2] /\ p[i] < p[k]

\* C18: search returns exactly the bindings whose score is greater than 0,
\* each paired with its non-negative score, ordered by descending score;
\* bindings of equal score keep their order of the input list; when no
\* binding matches the result is the empty list
SearchRanksMatches ==
    last.op = "search" =>
        LET keywords == last.query.keywords
            bindings == last.query.bindings
            P == Matching(keywords, bindings)
        IN  /\ RanksPositions(last.ret, keywords, bindings, P)
            /\ P = {} => last.ret = <<>>

\* a search over four bindings: the one that scores lowest came first and is
\* returned last, the two of equal score keep their order, the one that
\* scores 0 is left out
TieKeptInInputOrder ==
    /\ last.op = "search"
    /\ last.query.bindings = <<OpenTerm, LockScreen, SnapB, SnapA>>
    /\ Len(last.ret) = 3
    /\ last.ret[1][1] = SnapB /\ last.ret[2][1] = SnapA
    /\ last.ret[1][2] = last.ret[2][2]
    /\ last.ret[3][1] = OpenTerm /\ last.ret[3][2] < last.ret[2][2]
    /\ ScoreBinding(LockScreen, last.query.keywords) = 0


(***************************************************************************)
(* i3-help.py: synonym expansion of the help launcher                      *)
(***************************************************************************)
\* the synonyms load_dictionaries falls back to when search_dictionaries.json
\* does not exist
BuiltinSynonyms ==
    (<<"s", "c", "r", "e", "e", "n", "s", "h", "o", "t">> :> <<<<"s", "n", "a", "p", "s", "h", "o", "t">>, <<"c", "a", "p", "t", "u", "r", "e">>, <<"g", "r", "a", "b">>>>)
    @@ (<<"v", "o", "l", "u", "m", "e">> :> <<<<"s", "o", "u", "n", "d">>, <<"a", "u", "d", "i", "o">>>>)
    @@ (<<"b", "r", "i", "g", "h", "t", "n", "e", "s", "s">> :> <<<<"b", "r", "i", "g", "h", "t">>, <<"d", "i", "m">>>>)
    @@ (<<"b", "r", "o", "w", "s", "e", "r">> :> <<<<"w", "e", "b">>, <<"i", "n", "t", "e", "r", "n", "e", "t">>>>)

\* I3KeybindingHelper.load_dictionaries: the file when it is there, the
\* built-in synonyms when it is not, what __init__ set when it cannot be read
HelperLoadDictionaries(file) ==
    IF file.state = "written" THEN file.dictionaries
    ELSE IF file.state = "absent"
         THEN [EmptyDictionaries EXCEPT !.synonyms = BuiltinSynonyms]
    ELSE EmptyDictionaries

\* what the reverse lookup adds for one word: every key that lists the word,
\* with all that the key lists
ReverseLookup(synonyms, word) ==
    UNION {{key} \cup SeqToSet(synonyms[key]) :
             key \in {k \in DOMAIN synonyms : word \in SeqToSet(synonyms[k])}}

\* the body of the loop of expand_synonyms for one word
ExpandWord(synonyms, word) ==
    (IF word \in DOMAIN synonyms THEN SeqToSet(synonyms[word]) ELSE {})
      \cup ReverseLookup(synonyms, word)

\* the loop of expand_synonyms: what it adds to the set it started from
RECURSIVE ExpandWithoutWords(_, _)
ExpandWithoutWords(synonyms, words) ==
    IF words = <<>> THEN {}
    ELSE ExpandWord(synonyms, Head(words))
           \cup ExpandWithoutWords(synonyms, Tail(words))

\* expand_synonyms starting from the empty set instead of set(words)
ExpandFromNothing(synonyms, words) == ExpandWithoutWords(synonyms, words)

\* expand_synonyms(words): expanded = set(words), then the loop
ExpandSynonyms(synonyms, words) ==
    SeqToSet(words) \cup ExpandWithoutWords(synonyms, words)

\* list(s) of a set s: one of the orders it iterates in
AsList(S) == CHOOSE order \in Orderings(S) : TRUE

(***************************************************************************)
(* SpecExpand: the launcher expanding tokens over the dictionaries it      *)
(* loaded                                                                  *)
(***************************************************************************)
\* the longest token list
MaxWords == 2

Tokens ==
    {<<"s", "c", "r", "e", "e", "n", "s", "h", "o", "t">>, <<"c", "a", "p", "t", "u", "r", "e">>, <<"g", "r", "a", "b">>, <<"s", "o", "u", "n", "d">>, <<"x">>}

\* search_dictionaries.json with a synonym that is a key of another entry
ChainedSynonyms ==
    (<<"s", "c", "r", "e", "e", "n", "s", "h", "o", "t">> :> <<<<"c", "a", "p", "t", "u", "r", "e">>>>)
    @@ (<<"c", "a", "p", "t", "u", "r", "e">> :> <<<<"g", "r", "a", "b">>>>)

\* search_dictionaries.json with a synonym listed under two keys
SharedSynonyms ==
    (<<"s", "c", "r", "e", "e", "n", "s", "h", "o", "t">> :> <<<<"g", "r", "a", "b">>>>)
    @@ (<<"c", "a", "p", "t", "u", "r", "e">> :> <<<<"g", "r", "a", "b">>>>)

\* the states of search_dictionaries.json the launcher starts over
HelperFiles ==
    {[state |-> "absent", dictionaries |-> EmptyDictionaries],
     [state |-> "written",
      dictionaries |-> [EmptyDictionaries EXCEPT !.synonyms = ChainedSynonyms]],
     [state |-> "written",
      dictionaries |-> [EmptyDictionaries EXCEPT !.synonyms = SharedSynonyms]]}

RECURSIVE TokenLists(_)
TokenLists(n) ==
    IF n = 0 THEN {<<>>}
    ELSE {<<>>} \cup {<<t>> \o r : t \in Tokens, r \in TokenLists(n - 1)}

\* I3KeybindingHelper() constructed over one of the files
InitExpand ==
    /\ dictionaries_file \in HelperFiles
    /\ dictionaries = HelperLoadDictionaries(dictionaries_file)
    /\ config = DefaultConfig
    /\ failed_searches = <<>>
    /\ insights = <<>>
    /\ learning_file = NoFile
    /\ storage = "ok"
    /\ now = 0
    /\ nrec = 0
    /\ last_save = [status |-> "none", recovered |-> FALSE]
    /\ peer = NoPeer
    /\ last = NoCall

\* expand_synonyms(words) is called; hit tells that it added a term
ObservedExpand(words) ==
    /\ Called("expand_synonyms", words,
              ExpandSynonyms(dictionaries.synonyms, words) # SeqToSet(words),
              ExpandSynonyms(dictionaries.synonyms, words))
    /\ UNCHANGED <<config, failed_searches, insights, dictionaries,
                   learning_file, dictionaries_file, storage, now, nrec,
                   last_save, peer>>

NextExpand == \E words \in TokenLists(MaxWords) : ObservedExpand(words)

SpecExpand == InitExpand /\ [][NextExpand]_vars

\* C19: synonym expansion is monotone: whatever the token list and the
\* synonym dictionary, expand_synonyms(tokens) contains every input token
ExpansionMonotone ==
    last.op = "expand_synonyms" => SeqToSet(last.query) \subseteq last.ret

\* an expansion of two tokens that added synonyms, one of the tokens being
\* in no entry of the dictionary
TokensKeptAmongSynonyms ==
    /\ last.op = "expand_synonyms"
    /\ last.hit
    /\ Len(last.query) = 2
    /\ \E i \in 1..2 : ExpandWord(dictionaries.synonyms, last.query[i]) = {}
    /\ SeqToSet(last.query) \subseteq last.ret

\* C20: synonym expansion is idempotent: whatever the token set and the
\* synonym dictionary the launcher holds, expanding the result of
\* expand_synonyms again, with the dictionaries unchanged, adds no term
ExpansionIdempotent ==
    last.op = "expand_synonyms" =>
        ExpandSynonyms(dictionaries.synonyms, AsList(last.ret)) = last.ret


(***************************************************************************)
(* SpecRace: two engines over the same data directory                      *)
(***************************************************************************)
\* the queries the two engines record
RaceQueries == {<<" ", "S", "n", "p">>, <<"c", "a", "t">>}

\* the memory of the engine that runs; the engines are numbered 1 and 2
Memory ==
    [started |-> TRUE, id |-> 3 - peer.id, config |-> config,
     failed_searches |-> failed_searches, insights |-> insights,
     dictionaries |-> dictionaries, last_save |-> last_save]

\* SearchLearningSystem(data_path) as constructed over the files by the
\* process numbered id
Constructed(id) ==
    LET loaded == LoadLearningData(learning_file)
    IN  [started |-> TRUE, id |-> id, config |-> loaded.config,
         failed_searches |-> loaded.failed_searches,
         insights |-> loaded.insights,
         dictionaries |-> LoadDictionaries(dictionaries_file),
         last_save |-> [status |-> "none", recovered |-> FALSE]]

\* the other process gets the processor: it goes on where it waited, or
\* constructs its engine when it has not started yet
Switch ==
    LET other == IF peer.started THEN peer ELSE Constructed(peer.id)
    IN  /\ peer' = Memory
        /\ config' = other.config
        /\ failed_searches' = other.failed_searches
        /\ insights' = other.insights
        /\ dictionaries' = other.dictionaries
        /\ last_save' = other.last_save
        /\ UNCHANGED <<learning_file, dictionaries_file, storage, now, nrec>>

\* learning_data.json just after open(path, 'w'): it exists and is empty
OpenedFile == [NoFile EXCEPT !.state = "truncated"]

\* learning_data.json holding the start of one document and the end of a
\* longer one
TornFile == [NoFile EXCEPT !.state = "torn"]

\* what json.dump and the close leave in the file.  The writer's document
\* goes to the start of the file; what another process wrote after this
\* one's open stays behind it when it is the longer of the two
WrittenOver(file, document) ==
    IF file.state = "truncated" THEN {document} ELSE {document, TornFile}

\* record_failed_search up to the open(path, 'w') of save_learning_data
RecordAndOpen(query) ==
    /\ last_save.status # "writing"
    /\ Strip(query) # <<>>
    /\ LET fs == FailedSearch(Strip(Lower(query)), now, 0, <<>>, "", nrec + 1)
       IN  \E obs \in FailureObservations(fs, dictionaries, config) :
             /\ failed_searches' =
                  TrimFailedSearches(Append(failed_searches, fs),
                                     config.max_failed_searches)
             /\ insights' = AddInsights(insights, obs, now, config.max_insights)
    /\ learning_file' = OpenedFile
    /\ last_save' = [status |-> "writing", recovered |-> FALSE]
    /\ nrec' = nrec + 1
    /\ UNCHANGED <<config, dictionaries, dictionaries_file, storage, now, peer>>

\* the rest of that record_failed_search: json.dump, the close, the return
WriteAndClose ==
    /\ last_save.status = "writing"
    /\ learning_file' \in
         WrittenOver(learning_file,
                     LearningData(failed_searches, insights, config, now))
    /\ last_save' = [status |-> "ok", recovered |-> FALSE]
    /\ UNCHANGED <<config, failed_searches, insights, dictionaries,
                   dictionaries_file, storage, now, nrec, peer>>

NextRace ==
    \/ \E q \in RaceQueries :
         nrec < MaxRecorded /\ RecordAndOpen(q) /\ Unobserved
    \/ /\ WriteAndClose
       /\ Called("save_learning_data", <<>>, learning_file'.state = "written",
                 3 - peer.id)
    \/ Switch /\ UNCHANGED last

SpecRace == InitTracker /\ [][NextRace]_vars

\* both engines have loaded, recorded and saved, and neither is saving
BothSaved ==
    /\ peer.started
    /\ last_save.status = "ok"
    /\ peer.last_save.status = "ok"

\* C21: when two engines over the same data directory have both loaded the
\* files and each has recorded a failed search and saved, learning_data.json
\* equals the memory of the engine that saved last, and the records that only
\* the other engine holds are not in it
LastWriterWins ==
    BothSaved /\ last.op = "save_learning_data" =>
        LET winner == IF last.ret = peer.id THEN peer ELSE Memory
            loser == IF last.ret = peer.id THEN Memory ELSE peer
        IN  /\ learning_file.state = "written"
            /\ learning_file.failed_searches = winner.failed_searches
            /\ learning_file.insights = winner.insights
            /\ learning_file.config = winner.config
            /\ \A i \in 1..Len(loser.failed_searches) :
                 loser.failed_searches[i] \notin SeqToSet(winner.failed_searches)
                   => loser.failed_searches[i]
                        \notin SeqToSet(learning_file.failed_searches)


\* how often the term occurs in the list
TimesIn(list, term) == Cardinality({k \in 1..Len(list) : list[k] = term})

\* C22: after a call of apply_high_confidence_suggestions with an eligible
\* synonym insight (original, mapping) in the store, original occurs exactly
\* once in synonyms[mapping] when mapping was a key of the synonyms before
\* the call, and otherwise synonyms[original] is [mapping]
SynonymInsightWritten ==
    [][IsApplyStep =>
         \A i \in 1..Len(insights) :
           (insights[i].pattern_type = "synonym" /\ ClearsThresholds(insights[i])) =>
             LET original == insights[i].original_term
                 mapping == insights[i].suggested_mapping
                 after == dictionaries'.synonyms
             IN  IF mapping \in DOMAIN dictionaries.synonyms
                 THEN /\ mapping \in DOMAIN after
                      /\ TimesIn(after[mapping], original) = 1
                 ELSE /\ original \in DOMAIN after
                      /\ after[original] = <<mapping>>]_vars


(***************************************************************************)
(* SpecApplyStorage: applying insights while the data directory stops and  *)
(* resumes accepting writes                                                *)
(***************************************************************************)
NextApplyStorage ==
    \/ \E q \in LoopQueries, sm \in LoopSuggestedMatches :
         nrec < MaxRecorded /\ RecordFailedSearch(q, 0, sm, "") /\ Unobserved
    \/ ObservedApply
    \/ \E st \in StorageStates : StorageChange(st) /\ Unobserved

SpecApplyStorage == InitLoop /\ [][NextApplyStorage]_vars

\* C23: apply_high_confidence_suggestions writes the dictionary file if and
\* only if it applied at least one change; a call that returns 0 leaves the
\* file as it is
DictionariesSavedIffApplied ==
    [][IsApplyStep =>
         /\ last'.ret = 0 => dictionaries_file' = dictionaries_file
         /\ last'.ret > 0 =>
              dictionaries_file' =
                SaveDictionaries(dictionaries_file, dictionaries', storage)]_vars

\* an apply call that returned 0 while a write would have emptied the file,
\* with an insight above both thresholds in the store: the file is intact
NothingAppliedNothingWritten ==
    /\ last.op = "apply_high_confidence_suggestions"
    /\ last.ret = 0
    /\ storage = "full"
    /\ \E i \in 1..Len(insights) : ClearsThresholds(insights[i])
    /\ dictionaries_file = [state |-> "written", dictionaries |-> dictionaries]


(***************************************************************************)
(* SpecFeedback: feedback over a store longer than the scan of             *)
(* record_user_feedback                                                    *)
(***************************************************************************)
\* the store an earlier run of record_failed_search("snp") followed by
\* FeedbackWindow - 1 rounds of record_failed_search("cat") and
\* record_user_selection("cat", "cat") saved, all within the same second
LoadedUnrated ==
    [k \in 1..FeedbackWindow |->
        IF k = 1
        THEN FailedSearch(<<"s", "n", "p">>, 0, 0, <<>>, "", k)
        ELSE [FailedSearch(<<"c", "a", "t">>, 0, 0, <<>>, "", k)
                EXCEPT !.user_selected = Some(<<"c", "a", "t">>)]]

\* the engine as constructed over the learning_data.json of that run
InitFeedback ==
    /\ config = LearningConfig(SelectionWindow + MaxFailedSearches, MaxInsights,
                               DefaultAutoApplyThreshold)
    /\ failed_searches = LoadedUnrated
    /\ insights = <<>>
    /\ dictionaries = EmptyDictionaries
    /\ learning_file = LearningData(LoadedUnrated, <<>>, config, 0)
    /\ dictionaries_file = [state |-> "written", dictionaries |-> EmptyDictionaries]
    /\ storage = "ok"
    /\ now = 0
    /\ nrec = FeedbackWindow
    /\ last_save = [status |-> "none", recovered |-> FALSE]
    /\ peer = NoPeer
    /\ last = NoCall

NextFeedback ==
    \/ \E q \in WindowQueries :
         /\ nrec < FeedbackWindow + MaxRecorded
         /\ RecordFailedSearch(q, 0, <<>>, "")
         /\ Unobserved
    \/ \E q \in WindowQueries : ObservedFeedback(q, "helpful")
    \/ now < MaxTicks * TickSeconds /\ Tick(TickSeconds) /\ UNCHANGED last

SpecFeedback == InitFeedback /\ [][NextFeedback]_vars

\* the step is a call of record_user_feedback
IsFeedbackStep == now' = now /\ last'.op = "record_user_feedback"

\* the positions after position lo of the failed searches with the query q
\* and a timestamp inside the correlation window
Rateable(q, lo) ==
    {i \in 1..Len(failed_searches) :
        /\ i > lo
        /\ failed_searches[i].query = q
        /\ now - failed_searches[i].timestamp < CorrelationSeconds}

\* the step sets user_feedback on the last position of S and changes no
\* other failed search; with S empty it changes none
RatesNewestOf(S) ==
    IF S = {}
    THEN failed_searches' = failed_searches
    ELSE LET newest == CHOOSE i \in S : \A j \in S : j <= i
         IN  failed_searches' =
               [failed_searches EXCEPT ![newest].user_feedback = Some("helpful")]

\* C24 as stated: whenever record_user_selection would find a record for the
\* query, record_user_feedback sets user_feedback on the most recent failed
\* search with the normalised query and a timestamp inside the window, and
\* it changes no other record
FeedbackWhereSelectionFinds ==
    [][IsFeedbackStep =>
         /\ Selectable(last'.query, Len(failed_searches) - SelectionWindow) # {}
              => RatesNewestOf(Rateable(last'.query, 0))
         /\ \A i \in 1..Len(failed_searches) :
              failed_searches'[i] # failed_searches[i]
                => i \in Rateable(last'.query, 0)
                   /\ \A j \in Rateable(last'.query, 0) : j <= i]_vars

\* C24: record_user_feedback sets user_feedback on the most recent failed
\* search with the normalised query and a timestamp inside the window among
\* the last 5 of the store, whether it has a selection or not, and on no
\* other record
FeedbackAmongLastFive ==
    [][IsFeedbackStep =>
         RatesNewestOf(Rateable(last'.query,
                                Len(failed_searches) - FeedbackWindow))]_vars

\* feedback was recorded on a failed search that has a selection, and
\* feedback for a query whose only record has 5 later ones behind it, and no
\* selection, found nothing
SelectedRatedOlderMissed ==
    /\ last.op = "record_user_feedback"
    /\ ~last.hit
    /\ Selectable(last.query, Len(failed_searches) - SelectionWindow) # {}
    /\ \E j \in 1..Len(failed_searches) :
         /\ failed_searches[j].user_selected # None
         /\ failed_searches[j].user_feedback = Some("helpful")

(***************************************************************************)
(* The value cleanup_old_data returns and what it writes                   *)
(***************************************************************************)
\* C25: cleanup_old_data returns the number of failed searches plus the
\* number of insights it removed; when that number is greater than 0 it
\* saves the learning data that are left, and when it is 0 it leaves
\* learning_data.json as it was
CleanupReturnsRemovedCount ==
    [][IsCleanupStep =>
         /\ last'.ret = (Len(failed_searches) - Len(failed_searches'))
                          + (Len(insights) - Len(insights'))
         /\ last'.ret > 0 =>
              learning_file' =
                WriteFile(learning_file,
                          LearningData(failed_searches', insights', config, now),
                          storage)
         /\ last'.ret = 0 =>
              /\ learning_file' = learning_file
              /\ last_save' = last_save]_vars

\* C25 witness: cleanup_old_data has found nothing old in a store that holds
\* failed searches and insights, has returned 0, and the file still carries
\* the time of the save before it
NothingRemovedNothingSaved ==
    /\ last.op = "cleanup_old_data"
    /\ last.ret = 0
    /\ failed_searches # <<>>
    /\ insights # <<>>
    /\ learning_file.state = "written"
    /\ learning_file.last_updated < now

(***************************************************************************)
(* The fields of the stored insights                                       *)
(***************************************************************************)
\* C26: after any sequence of record_failed_search and record_user_selection
\* calls every stored insight has a confidence_score within [0, 1], an
\* evidence_count of at least 1 and a first_seen not later than its last_seen
InsightFieldsInRange ==
    \A i \in 1..Len(insights) :
      /\ RatLeq(<<0, 1>>, insights[i].confidence_score)
      /\ RatLeq(insights[i].confidence_score, <<1, 1>>)
      /\ insights[i].evidence_count >= 1
      /\ insights[i].first_seen <= insights[i].last_seen

\* C26 witness: an insight found again at a later time, whose confidence
\* the repetition has brought to the cap
InsightRepeatedToCap ==
    \E i \in 1..Len(insights) :
      /\ insights[i].confidence_score = <<1, 1>>
      /\ insights[i].evidence_count >= 2
      /\ insights[i].first_seen < insights[i].last_seen

(***************************************************************************)
(* SpecScore: score_binding called with one binding and a list of keywords *)
(***************************************************************************)
MaxKeywords == 2

\* a binding whose command is also in its search_text
SnapIndexed ==
    Binding(<<"S", "n", "a", "p">>, <<"s", "h", "o", "t">>, <<"a">>,
            <<"s", "h", "o", "t">>)

ScoredBindings == {SnapA, SnapIndexed, OpenTerm, LockScreen, Reload}

\* keywords: a word of the command, a key of one character, a keyword of two
\* words, a misspelling close to a word of the description, a word of no
\* binding
ScoreTerms ==
    {<<"s", "h", "o", "t">>,
     <<"a">>,
     <<"l", "o", "c", "k", " ", "a">>,
     <<"s", "n", "p">>,
     <<"x", "y", "z">>}

ScoreKeywordLists == ListsUpTo(ScoreTerms, MaxKeywords)

\* search calls score_binding(binding, keywords), no other call of it being
\* in flight
CallScoreBinding(binding, keywords) ==
    /\ last.op # "score_binding called"
    /\ Called("score_binding called",
              [keywords |-> keywords, binding |-> binding], FALSE, 0)
    /\ UNCHANGED <<config, failed_searches, insights, dictionaries,
                   learning_file, dictionaries_file, storage, now, nrec,
                   last_save, peer>>

\* the score_binding in flight returns: it reads nothing of the learning
\* engine and changes nothing
ReturnScoreBinding ==
    /\ last.op = "score_binding called"
    /\ Called("score_binding", last.query,
              ScoreBinding(last.query.binding, last.query.keywords) > 0,
              ScoreBinding(last.query.binding, last.query.keywords))
    /\ UNCHANGED <<config, failed_searches, insights, dictionaries,
                   learning_file, dictionaries_file, storage, now, nrec,
                   last_save, peer>>

NextScore ==
    \/ \E binding \in ScoredBindings, keywords \in ScoreKeywordLists :
         CallScoreBinding(binding, keywords)
    \/ ReturnScoreBinding

SpecScore == InitSearch /\ [][NextScore]_vars

\* the sum of credit[k] over the keywords k of the list
RECURSIVE SumOver(_, _)
SumOver(keywords, credit) ==
    IF keywords = <<>> THEN 0
    ELSE credit[Head(keywords)] + SumOver(Tail(keywords), credit)

\* the keyword is in the full text of the binding, in its search_text
InText(keyword, binding) == Contains(keyword, BindingText(binding))

InSearchText(keyword, binding) == Contains(keyword, BindingSearch(binding))

\* what the per-word and the fuzzy tier add for one keyword
WordAndFuzzyCredit(keyword, binding) ==
    WordsScore(Split(keyword), BindingText(binding), BindingSearch(binding))
      + CloseScore(keyword, BindingText(binding))

\* C27 as stated: the score is the sum over the keywords of +10 for a keyword
\* in the full text and +8 for a keyword in search_text, both for a keyword
\* in both, with the per-word and the fuzzy tier added
BothContainmentTiersAdded ==
    last.op = "score_binding" =>
      last.ret =
        SumOver(last.query.keywords,
                [k \in SeqToSet(last.query.keywords) |->
                   (IF InText(k, last.query.binding) THEN ExactTextScore ELSE 0)
                     + (IF InSearchText(k, last.query.binding)
                        THEN ExactSearchScore ELSE 0)
                     + WordAndFuzzyCredit(k, last.query.binding)])

\* C27: score_binding adds the per-word and the fuzzy tier to the
\* containment tier without early exit, and of the two containment tiers it
\* takes the first that applies: a keyword in the full text contributes +10
\* whether or not it is in search_text, and a keyword contributes +8 only
\* when it is in search_text and not in the full text
FirstContainmentTierTaken ==
    last.op = "score_binding" =>
      last.ret =
        SumOver(last.query.keywords,
                [k \in SeqToSet(last.query.keywords) |->
                   (IF InText(k, last.query.binding) THEN ExactTextScore
                    ELSE IF InSearchText(k, last.query.binding)
                         THEN ExactSearchScore
                    ELSE 0)
                     + WordAndFuzzyCredit(k, last.query.binding)])

\* C27 witness: a binding scored for the one keyword 'shot', which is in its
\* full text and in its search_text: 10 + 3 + 5, and no 8
TermInTextAndSearchText ==
    /\ last.op = "score_binding"
    /\ last.query.keywords = <<<<"s", "h", "o", "t">>>>
    /\ InText(<<"s", "h", "o", "t">>, last.query.binding)
    /\ InSearchText(<<"s", "h", "o", "t">>, last.query.binding)
    /\ last.ret = ExactTextScore + WordTextScore + FuzzyScore

\* the keyword is one word
OneWord(keyword) == Len(Split(keyword)) = 1

\* what the first loop of score_binding adds for the keyword
ContainmentAndWordCredit(keyword, binding) ==
    ExactScore(keyword, BindingText(binding), BindingSearch(binding))

\* C28 as stated: a keyword of one word that is in the full text contributes
\* +10 from the containment and per-word tiers together, every other keyword
\* what the first loop gives it, with the fuzzy tier added
OneWordInTextScoresTen ==
    last.op = "score_binding" =>
      last.ret =
        SumOver(last.query.keywords,
                [k \in SeqToSet(last.query.keywords) |->
                   (IF OneWord(k) /\ InText(k, last.query.binding)
                    THEN ExactTextScore
                    ELSE ContainmentAndWordCredit(k, last.query.binding))
                     + CloseScore(k, BindingText(last.query.binding))])

\* C28: score_binding gives the per-word credit to every word longer than 2
\* characters of a keyword, a keyword of one word included: a keyword of one
\* word that is in the full text contributes +13 from the containment and
\* per-word tiers together when the word is longer than 2 characters, and
\* +10 when it is not
OneWordInTextScoresThirteen ==
    last.op = "score_binding" =>
      last.ret =
        SumOver(last.query.keywords,
                [k \in SeqToSet(last.query.keywords) |->
                   (IF OneWord(k) /\ InText(k, last.query.binding)
                    THEN (IF Len(Head(Split(k))) > MinPartialWordLen
                          THEN ExactTextScore + WordTextScore
                          ELSE ExactTextScore)
                    ELSE ContainmentAndWordCredit(k, last.query.binding))
                     + CloseScore(k, BindingText(last.query.binding))])

\* C28 witness: a binding without search_text scored for the keywords 'shot'
\* and 'a', both of one word and both in its full text: 10 + 3 + 5 for the
\* longer and 10 + 5 for the shorter
OneWordTermsInText ==
    /\ last.op = "score_binding"
    /\ last.query.binding = SnapA
    /\ last.query.keywords = <<<<"s", "h", "o", "t">>, <<"a">>>>
    /\ last.ret = (ExactTextScore + WordTextScore + FuzzyScore)
                    + (ExactTextScore + FuzzyScore)

(***************************************************************************)
(* i3-help.py: typo correction and text normalization of the help launcher *)
(***************************************************************************)
\* ' '.join(words)
RECURSIVE Join(_)
Join(words) ==
    IF words = <<>> THEN <<>>
    ELSE IF Len(words) = 1 THEN Head(words)
    ELSE Head(words) \o <<" ">> \o Join(Tail(words))

\* correct_typos appending the word before its correction
CorrectTyposKeeping(typos, text) ==
    LET words == Split(text)
        kept(w) == IF Lower(w) \in DOMAIN typos
                   THEN w \o <<" ">> \o typos[Lower(w)] ELSE w
    IN  Join([i \in 1..Len(words) |-> kept(words[i])])

\* correct_typos(text): self.typos.get(word.lower(), word) for every word of
\* text.split(), joined by single spaces
CorrectTypos(typos, text) ==
    LET words == Split(text)
    IN  Join([i \in 1..Len(words) |->
                IF Lower(words[i]) \in DOMAIN typos
                THEN typos[Lower(words[i])] ELSE words[i]])

\* a word of more than 3 characters loses its final 's'
PluralMinLen == 3

\* what the loop of normalize_text appends for one word
NormalizeWord(word) ==
    {word}
      \cup (IF Len(word) > PluralMinLen /\ word[Len(word)] = "s"
            THEN {SubSeq(word, 1, Len(word) - 1)} ELSE {})
      \cup (IF Len(word) >= 3 /\ SubSeq(word, Len(word) - 2, Len(word)) = <<"i", "n", "g">>
            THEN {SubSeq(word, 1, Len(word) - 3)}
            ELSE IF Len(word) >= 2 /\ SubSeq(word, Len(word) - 1, Len(word)) = <<"e", "d">>
                 THEN {SubSeq(word, 1, Len(word) - 2)}
            ELSE {})

\* normalize_text(text): the set its list is made from
NormalizeText(text) ==
    UNION {NormalizeWord(word) : word \in SeqToSet(FindallWords(Lower(text)))}

(***************************************************************************)
(* SpecText: the launcher correcting and normalizing the text of a query   *)
(***************************************************************************)
\* search_dictionaries.json as the launcher finds it: not there, with one
\* typo, with two typos
TypoFiles ==
    {[state |-> "absent", dictionaries |-> EmptyDictionaries],
     [state |-> "written",
      dictionaries |-> [EmptyDictionaries EXCEPT
                          !.typos = (<<"s", "n", "p">> :> <<"s", "n", "i", "p">>)]],
     [state |-> "written",
      dictionaries |-> [EmptyDictionaries EXCEPT
                          !.typos = (<<"s", "n", "p">> :> <<"s", "n", "i", "p">>)
                                    @@ (<<"s", "c", "e", "e", "n">> :>
                                          <<"s", "c", "r", "e", "e", "n">>)]]}

\* a misspelling, the same with a capital, a word that is no misspelling, a
\* correction
TypoWords ==
    {<<"s", "n", "p">>, <<"S", "n", "p">>, <<"s", "h", "o", "t">>,
     <<"s", "n", "i", "p">>}

\* a word in 'ss', a plural, a word in 'ing' with a capital, a word in 'ed'
StemWords ==
    {<<"c", "l", "a", "s", "s">>, <<"k", "e", "y", "s">>,
     <<"T", "i", "l", "i", "n", "g">>, <<"m", "o", "v", "e", "d">>}

\* the texts of at most n of the words, separated by single spaces
RECURSIVE WordLists(_, _)
WordLists(W, n) ==
    IF n = 0 THEN {<<>>}
    ELSE {<<>>} \cup {<<w>> \o r : w \in W, r \in WordLists(W, n - 1)}

Texts(W) == {Join(l) : l \in WordLists(W, MaxWords)}

\* I3KeybindingHelper() constructed over one of the files
InitText ==
    /\ dictionaries_file \in TypoFiles
    /\ dictionaries = HelperLoadDictionaries(dictionaries_file)
    /\ config = DefaultConfig
    /\ failed_searches = <<>>
    /\ insights = <<>>
    /\ learning_file = NoFile
    /\ storage = "ok"
    /\ now = 0
    /\ nrec = 0
    /\ last_save = [status |-> "none", recovered |-> FALSE]
    /\ peer = NoPeer
    /\ last = NoCall

\* correct_typos(text) is called; hit tells that it changed the text
ObservedCorrectTypos(text) ==
    /\ Called("correct_typos", text,
              CorrectTypos(dictionaries.typos, text) # text,
              CorrectTypos(dictionaries.typos, text))
    /\ UNCHANGED <<config, failed_searches, insights, dictionaries,
                   learning_file, dictionaries_file, storage, now, nrec,
                   last_save, peer>>

\* normalize_text(text) is called; hit tells that it added a stem
ObservedNormalizeText(text) ==
    /\ Called("normalize_text", text,
              NormalizeText(text) # SeqToSet(FindallWords(Lower(text))),
              NormalizeText(text))
    /\ UNCHANGED <<config, failed_searches, insights, dictionaries,
                   learning_file, dictionaries_file, storage, now, nrec,
                   last_save, peer>>

NextText ==
    \/ \E text \in Texts(TypoWords) : ObservedCorrectTypos(text)
    \/ \E text \in Texts(StemWords) : ObservedNormalizeText(text)

SpecText == InitText /\ [][NextText]_vars

\* the token is a key of the typo map as it is written
ExactKey(token) == token \in DOMAIN dictionaries.typos

\* C29 as stated: for every token of the input that is an exact key of the
\* typo map the token and its correction are both among the tokens of the
\* result, and every token that is no key is in the result unchanged
MisspelledFormKept ==
    last.op = "correct_typos" =>
      \A i \in 1..Len(Split(last.query)) :
        LET token == Split(last.query)[i]
        IN  IF ExactKey(token)
            THEN /\ token \in SeqToSet(Split(last.ret))
                 /\ dictionaries.typos[token] \in SeqToSet(Split(last.ret))
            ELSE token \in SeqToSet(Split(last.ret))

\* C29: typo correction replaces the misspelled form: the result has a token
\* for every token of the input, in the same order and separated by single
\* spaces; the token whose lower-case form is a key of the typo map has its
\* correction in its place, and every other token is left unchanged
MisspelledFormReplaced ==
    last.op = "correct_typos" =>
      /\ Len(Split(last.ret)) = Len(Split(last.query))
      /\ last.ret = Join(Split(last.ret))
      /\ \A i \in 1..Len(Split(last.query)) :
           LET token == Split(last.query)[i]
           IN  Split(last.ret)[i] =
                 IF ExactKey(Lower(token)) THEN dictionaries.typos[Lower(token)]
                 ELSE token

\* C29 witness: 'snp shot' corrected over a typo map with the key 'snp': the
\* result is 'snip shot', without the misspelled form
MisspelledFormGone ==
    /\ last.op = "correct_typos"
    /\ last.query = <<"s", "n", "p", " ", "s", "h", "o", "t">>
    /\ ExactKey(<<"s", "n", "p">>)
    /\ last.ret = <<"s", "n", "i", "p", " ", "s", "h", "o", "t">>
    /\ <<"s", "n", "p">> \notin SeqToSet(Split(last.ret))

\* the text formed by the tokens normalize_text returned
TextOf(tokens) == Join(AsList(tokens))

\* C30: normalize_text is idempotent on its own output: normalizing the text
\* formed by the tokens it returned yields no token that was not in that
\* output, and the output contains every lower-case literal token of the
\* input
NormalizeIdempotentOnOutput ==
    last.op = "normalize_text" =>
      /\ NormalizeText(TextOf(last.ret)) \subseteq last.ret
      /\ SeqToSet(FindallWords(Lower(last.query))) \subseteq last.ret

\* normalize_text contains every lower-case literal token of the input
LiteralTokensKept ==
    last.op = "normalize_text" =>
      SeqToSet(FindallWords(Lower(last.query))) \subseteq last.ret

(***************************************************************************)
(* SpecTypos: the miner over dictionaries with more close terms than       *)
(* _check_for_typos keeps, and with intents and typo keys                  *)
(***************************************************************************)
\* search_dictionaries.json as loaded: four terms close to 'snp' among the
\* synonyms and the typo corrections, three more among the intents and the
\* typo keys
TypoDictionaries ==
    [synonyms |-> (<<"s", "n", "a", "p">> :>
                     <<<<"s", "n", "i", "p">>, <<"s", "n", "p", "s">>>>),
     intents |-> (<<"s", "n", "u", "p">> :> <<<<"s", "n", "o", "p">>>>),
     typos |-> (<<"s", "a", "n", "p">> :> <<"s", "n", "i", "p", "e">>)]

\* a misspelling with a capital and a blank, a term of the dictionary, a
\* query close to no term
TypoQueries ==
    {<<" ", "S", "n", "p">>, <<"s", "n", "a", "p">>, <<"c", "a", "t">>}

\* the store has room for the insights of every query
InitTypos ==
    Fresh(LearningConfig(MaxFailedSearches,
                         MaxInsights + MaxRecorded * TypoMatches,
                         DefaultAutoApplyThreshold),
          TypoDictionaries)

NextTypos ==
    \/ \E q \in TypoQueries :
         nrec < MaxRecorded /\ RecordFailedSearch(q, 0, <<>>, "") /\ Unobserved
    \/ \E q \in TypoQueries, d \in Descriptions : ObservedSelection(q, d)
    \/ now < MaxTicks * TickSeconds /\ Tick(TickSeconds) /\ UNCHANGED last

SpecTypos == InitTypos /\ [][NextTypos]_vars

\* the keys and values of synonyms, intents and typos
AllTerms(dicts) ==
    DOMAIN dicts.synonyms
      \cup UNION {SeqToSet(dicts.synonyms[k]) : k \in DOMAIN dicts.synonyms}
      \cup DOMAIN dicts.intents
      \cup UNION {SeqToSet(dicts.intents[k]) : k \in DOMAIN dicts.intents}
      \cup DOMAIN dicts.typos
      \cup {dicts.typos[k] : k \in DOMAIN dicts.typos}

\* the query of the failed search the step has recorded
RecordedQuery == failed_searches'[Len(failed_searches')].query

\* the terms t whose typo insight (query -> t) the step has created or
\* updated
TypoTermsTouched ==
    {t \in AllTerms(dictionaries) :
       \E j \in 1..Len(insights') :
         /\ IdentityOf(insights'[j]) = <<"typo", RecordedQuery, t>>
         /\ \A i \in 1..Len(insights) :
              IdentityOf(insights[i]) = IdentityOf(insights'[j]) =>
                insights'[j].evidence_count = insights[i].evidence_count + 1}

\* the terms of S whose similarity to the recorded query reaches the
\* threshold
CloseTerms(S) ==
    {t \in S : RatLeq(config.typo_similarity_threshold, Ratio(RecordedQuery, t))}

\* a typo insight of the recorded query that the step has created carries
\* the similarity as its confidence
NewTypoConfidenceIsSimilarity ==
    \A j \in 1..Len(insights') :
      (/\ insights'[j].pattern_type = "typo"
       /\ insights'[j].original_term = RecordedQuery
       /\ IdentityOf(insights'[j]) \notin Identities(insights))
        => insights'[j].confidence_score =
             Ratio(RecordedQuery, insights'[j].suggested_mapping)

CloseTermsOf(q) ==
    {t \in ExistingTerms(dictionaries) :
       RatLeq(config.typo_similarity_threshold, Ratio(q, t))}

SelectedSearch == failed_searches'[CHOOSE i \in SelectedByStep : TRUE]

\* the pairs (original_term, suggested_mapping) whose synonym insight the
\* step has created or updated
SynonymPairsTouched ==
    {<<insights'[j].original_term, insights'[j].suggested_mapping>> :
       j \in {k \in 1..Len(insights') :
                /\ insights'[k].pattern_type = "synonym"
                /\ \A i \in 1..Len(insights) :
                     IdentityOf(insights[i]) = IdentityOf(insights'[k]) =>
                       insights'[k].evidence_count = insights[i].evidence_count + 1}}

\* the step is a record_user_selection call that marked a failed search and
\* whose insights all fit in the store
SelectionMined ==
    /\ IsSelectionStep
    /\ SelectedByStep # {}
    /\ NothingEvicted(StepObservations)

\* C32 as stated: a record_user_selection call emits a synonym insight
\* (query word -> description word) only for the words of the selected
\* description that are not in the query and whose similarity to the query
\* word exceeds synonym_similarity_threshold
SelectionSynonymsBySimilarity ==
    [][SelectionMined =>
         \A pair \in SynonymPairsTouched :
           /\ pair[1] \in WordSet(SelectedSearch.query)
           /\ pair[2] \in WordSet(SelectedSearch.user_selected[1])
                            \ WordSet(SelectedSearch.query)
           /\ RatLess(config.synonym_similarity_threshold,
                      Ratio(pair[1], pair[2]))]_vars

\* C32: a record_user_selection call does not test the similarity: it emits
\* a synonym insight (query word -> description word) for every pair of a
\* word of the query and a word of the selected description that differ and
\* are both longer than 2 characters, and for no other pair; a new insight
\* has the confidence 0.5
SelectionSynonymsForEveryPair ==
    [][SelectionMined =>
         /\ SynonymPairsTouched =
              {pair \in WordSet(SelectedSearch.query)
                          \X WordSet(SelectedSearch.user_selected[1]) :
                 /\ pair[1] # pair[2]
                 /\ Len(pair[1]) > MinWordLen
                 /\ Len(pair[2]) > MinWordLen}
         /\ \A j \in 1..Len(insights') :
              (/\ insights'[j].pattern_type = "synonym"
               /\ IdentityOf(insights'[j]) \notin Identities(insights))
                => insights'[j].confidence_score = DefaultSynonymConfidence]_vars

\* C32 witness: 'Snap it' was selected for the failed query 'cat': the store
\* holds the synonym insight cat -> snap with confidence 0.5, though the
\* similarity of the two words is below the threshold
DissimilarSynonymMined ==
    /\ last.op = "record_user_selection"
    /\ last.hit
    /\ ~RatLess(config.synonym_similarity_threshold,
                Ratio(<<"c", "a", "t">>, <<"s", "n", "a", "p">>))
    /\ \E i \in 1..Len(insights) :
         /\ IdentityOf(insights[i]) =
              <<"synonym", <<"c", "a", "t">>, <<"s", "n", "a", "p">>>>
         /\ insights[i].confidence_score = DefaultSynonymConfidence

(***************************************************************************)
(* Mining before saving                                                    *)
(***************************************************************************)
\* learning_data.json after the step is one snapshot of the memory after the
\* step, and its last failed search is the one the step has recorded
SnapshotOfStep ==
    /\ learning_file' = LearningData(failed_searches', insights', config, now)
    /\ learning_file'.failed_searches # <<>>
    /\ learning_file'.failed_searches[Len(learning_file'.failed_searches)].seq = nrec'

\* C33: when record_failed_search returns, every insight derived
\* from the new failed search is in the store in memory, and the snapshot
\* the call wrote holds the new failed search and those insights
DerivedInsightsStoredAndSaved ==
    [][(IsRecordStep /\ storage = "ok") =>
         /\ \A k \in 1..Len(StepObservations) :
              /\ IdentityOf(StepObservations[k]) \in Identities(insights')
              /\ IdentityOf(StepObservations[k]) \in
                   Identities(learning_file'.insights)
         /\ SnapshotOfStep]_vars

\* what holds of every record_failed_search call: an insight derived from
\* the new failed search is in the store in memory unless the size limit of
\* the store has evicted it, which leaves the store at max_insights; the
\* snapshot the call wrote holds the new failed search and the insights that
\* are in memory
MinedThenSaved ==
    [][(IsRecordStep /\ storage = "ok") =>
         /\ \A k \in 1..Len(StepObservations) :
              \/ IdentityOf(StepObservations[k]) \in Identities(insights')
              \/ Len(insights') = config.max_insights
         /\ SnapshotOfStep]_vars

(***************************************************************************)
(* SpecCaps: the engine constructed over a learning_data.json whose config *)
(* sets the size caps and whose insight store is at its cap                *)
(***************************************************************************)
\* the insights of the file: MaxInsights typo insights of other queries,
\* each seen twice, all with the confidence c
StoredInsights(c) ==
    [k \in 1..MaxInsights |->
       [LearningInsight("typo", <<"c", "a", "t">>, [j \in 1..k |-> "x"], c, 0)
          EXCEPT !.evidence_count = DefaultMinEvidenceCount]]

\* learning_data.json as an earlier run saved it, with the caps written in
\* its config
CapFiles ==
    {LearningData(<<>>, StoredInsights(c),
                  LearningConfig(maxFailed, maxInsights, DefaultAutoApplyThreshold),
                  0) :
       c \in {DefaultSynonymConfidence, <<1, 1>>},
       maxFailed \in {0, MaxFailedSearches},
       maxInsights \in {0, MaxInsights}}

\* SearchLearningSystem(data_path) constructed over one of the files
InitCaps ==
    /\ learning_file \in CapFiles
    /\ config = LoadLearningData(learning_file).config
    /\ failed_searches = LoadLearningData(learning_file).failed_searches
    /\ insights = LoadLearningData(learning_file).insights
    /\ dictionaries = LoadedDictionaries
    /\ dictionaries_file = [state |-> "written", dictionaries |-> LoadedDictionaries]
    /\ storage = "ok"
    /\ now = 0
    /\ nrec = 0
    /\ last_save = [status |-> "none", recovered |-> FALSE]
    /\ peer = NoPeer
    /\ last = NoCall

\* the query that fails again and again: its typo insight is snp -> snap
RepeatedQuery == <<" ", "S", "n", "p">>

\* record_failed_search(' Snp', 0, []) once more
RecordAgain ==
    /\ nrec < MaxRecorded
    /\ RecordFailedSearch(RepeatedQuery, 0, <<>>, "")
    /\ Unobserved

NextCaps ==
    \/ RecordAgain
    \/ \E d \in Descriptions : ObservedSelection(RepeatedQuery, d)
    \/ now < MaxTicks * TickSeconds /\ Tick(TickSeconds) /\ UNCHANGED last

SpecCaps == InitCaps /\ [][NextCaps]_vars

\* the step of NextCaps that raises nrec is RecordAgain, and RecordAgain can
\* be taken whenever nrec < MaxRecorded
RecordedAgain == nrec < MaxRecorded /\ IsRecordStep

\* the caller goes on searching: record_failed_search is called as long as
\* the scenario allows
FairSpecCaps == SpecCaps /\ WF_nrec(RecordedAgain)

\* C37: with max_failed_searches = 0 the failed searches are empty after
\* every record_failed_search call, and with max_insights = 0 the insights
\* are empty after every call that adds an insight
ZeroCapsKeepStoresEmpty ==
    [][/\ (IsRecordStep /\ config.max_failed_searches = 0) =>
            failed_searches' = <<>>
       /\ (StepObservations # <<>> /\ config.max_insights = 0) =>
            insights' = <<>>]_vars

\* the typo insight of the repeated query has the evidence that
\* get_improvement_suggestions asks for
RepeatedInsightHasEvidence ==
    \E i \in 1..Len(insights) :
      /\ IdentityOf(insights[i]) =
           <<"typo", Strip(Lower(RepeatedQuery)), <<"s", "n", "a", "p">>>>
      /\ insights[i].evidence_count >= config.min_evidence_count

FullStoreIsFixedPoint ==
    [][(/\ IsRecordStep
        /\ config.max_insights > 0
        /\ Len(insights) = config.max_insights
        /\ \A i \in 1..Len(insights) : insights[i].confidence_score = <<1, 1>>)
         => insights' = insights]_vars

(***************************************************************************)
(* SpecMatches: failed searches with several suggested matches, and calls  *)
(* with a blank query                                                      *)
(***************************************************************************)
\* a misspelling of snap, a blank query, the empty query
MatchQueries == {<<"s", "n", "p">>, <<" ">>, <<>>}

\* two descriptions that share the word snap
SnapIt == <<"S", "n", "a", "p", " ", "i", "t">>

Snap == <<"S", "n", "a", "p">>

\* no suggested match, and both descriptions as suggested matches
MatchLists == {<<>>, <<SnapIt, Snap>>}

ObservedRecord(q, sm) ==
    /\ RecordFailedSearch(q, 0, sm, "")
    /\ Called("record_failed_search", q, Strip(q) # <<>>, 0)

NextMatches ==
    \/ \E q \in MatchQueries, sm \in MatchLists :
         nrec < MaxRecorded /\ ObservedRecord(q, sm)
    \/ \E d \in {SnapIt, Snap} : ObservedSelection(<<"s", "n", "p">>, d)
    \/ ObservedFeedback(<<"s", "n", "p">>, "helpful")
    \/ now < MaxTicks * TickSeconds /\ Tick(TickSeconds) /\ UNCHANGED last

SpecMatches == Init /\ [][NextMatches]_vars

\* the evidence_count of the insight of an identity, 0 when there is none
EvidenceOf(s, id) ==
    IF id \in Identities(s)
    THEN s[CHOOSE i \in 1..Len(s) : IdentityOf(s[i]) = id].evidence_count
    ELSE 0

\* C34: one record_failed_search call raises the evidence_count of any one
\* insight by at most 1, whatever the list of suggested matches
OneCallOneEvidence ==
    [][IsRecordStep =>
         \A id \in Identities(insights') :
            EvidenceOf(insights', id) <= EvidenceOf(insights, id) + 1]_vars

\* the step is a record_failed_search call whose query is empty or blank
IsBlankRecordStep ==
    /\ last'.op = "record_failed_search"
    /\ Strip(last'.query) = <<>>
    /\ now' = now

\* C35: record_failed_search with an empty or blank query changes neither
\* the failed searches nor the insights nor the dictionaries, and writes
\* nothing to storage
BlankQueryIsNoOp ==
    [][IsBlankRecordStep =>
         UNCHANGED <<failed_searches, insights, dictionaries, learning_file,
                     dictionaries_file, nrec, last_save>>]_vars

\* a blank query has been passed twice in a row to a store that holds a
\* failed search and its insights
BlankQueryAfterRecords ==
    /\ last.op = "record_failed_search"
    /\ last.query = <<" ">>
    /\ last.streak = 2
    /\ failed_searches # <<>>
    /\ insights # <<>>

\* the step is a call of record_user_selection or of record_user_feedback
IsSelectionOrFeedbackStep ==
    /\ now' = now
    /\ last'.op \in {"record_user_selection", "record_user_feedback"}

\* the positions of the failed searches that the step has changed
ChangedByStep ==
    {i \in 1..Len(failed_searches) : failed_searches'[i] # failed_searches[i]}

\* C36: a user_selected that is set is changed by no later
\* record_user_selection or record_user_feedback call, and a
\* record_user_selection call changes at most one failed search
UserSelectedWrittenOnce ==
    [][IsSelectionOrFeedbackStep =>
         /\ Len(failed_searches') = Len(failed_searches)
         /\ \A i \in 1..Len(failed_searches) :
              failed_searches[i].user_selected # None =>
                failed_searches'[i].user_selected =
                  failed_searches[i].user_selected
         /\ IsSelectionStep => Cardinality(ChangedByStep) <= 1]_vars

\* two record_user_selection calls in a row over two failed searches of the
\* query: the first call has set the later search to Snap it, the second
\* call, with the other description, has set the earlier search
SelectedTwiceInRow ==
    /\ Len(failed_searches) = 2
    /\ failed_searches[1].query = failed_searches[2].query
    /\ failed_searches[2].user_selected = Some(SnapIt)
    /\ failed_searches[1].user_selected = Some(Snap)
    /\ last.op = "record_user_selection"
    /\ last.streak = 2

(***************************************************************************)
(* Insights of a term to itself                                            *)
(***************************************************************************)
\* C39: after any record_failed_search and record_user_selection calls no
\* insight of the store has its original_term as its suggested_mapping,
\* also when the failed query is a term of the dictionary
NoInsightMapsTermToItself ==
    \A i \in 1..Len(insights) :
       insights[i].original_term # insights[i].suggested_mapping

\* what holds: no synonym insight maps a word to itself, as both miners of
\* synonyms leave out the pairs of equal words
NoSynonymMapsWordToItself ==
    \A i \in 1..Len(insights) :
       insights[i].pattern_type = "synonym" =>
         insights[i].original_term # insights[i].suggested_mapping

====
